---------------------------- MODULE Spec2Model ----------------------------
(***************************************************************************)
(* Model of the MeshtasticAI bridge: the CLI bot (meshtastic-ai-bot.py)   *)
(* and the desktop GUI (meshtastic-ai-gui.py).                            *)
(*                                                                         *)
(* Text is a sequence of Unicode code points; bytes are what Python's     *)
(* str.encode('utf-8') produces, and bytes.decode('utf-8', 'ignore') is   *)
(* modelled by parsing those bytes.                                       *)
(*                                                                         *)
(* Specifications:                                                         *)
(*   SpecEnc    the reply composition of on_receive / _process_ai_query   *)
(*   SpecQuery  one call of query_ollama / _query_ollama                   *)
(*   SpecQueryLive SpecQuery with every request and sleep coming to an end *)
(*   SpecBot    the bot's main loop and its on_receive handler             *)
(*   SpecBotLive   SpecBot with main's loop and the handler running on     *)
(*   SpecGui    the GUI's service lifecycle, health check and reconnect    *)
(*   SpecGuiRetry  SpecGui with the failed reconnect attempts counted       *)
(*   SpecGuiLive   SpecGuiRetry with the scheduling of Tk and the threads   *)
(*   SpecGuiMsg the GUI's _on_receive and _process_ai_query workers on    *)
(*              top of that lifecycle                                      *)
(*   SpecRouter a run of SpecBot or a run of SpecGuiMsg                    *)
(***************************************************************************)
EXTENDS Integers, Sequences, FiniteSets, TLC

VARIABLES
    e_pc,       \* reply composition: "ready" | "done"
    e_sender,   \* from_id, a sequence of code points
    e_answer,   \* answer returned by the query client, a sequence of code points
    e_bot,      \* text the bot's on_receive hands to sendText
    e_gui,      \* text the GUI's _process_ai_query hands to sendText
    q_variant,  \* query client: "bot" (query_ollama) | "gui" (_query_ollama) | "off"
    q_retries,  \* retries / api_retries
    q_pc,       \* "call" | "request" | "sleep" | "done" | "raised" | "off"
    q_attempt,  \* the loop variable attempt
    q_hist,     \* outcomes of the requests issued so far, in order
    q_sleeps,   \* number of time.sleep(delay) calls made
    q_last_error,   \* last_error
    q_result,   \* the value returned
    b_pc,       \* bot main(): "connect" | "delay" | "listen" | "failed" | "exited" | "exit_error" | "off"
    b_interface,    \* interface: 0 (None) or 1 (a SerialInterface)
    b_closed,   \* interface.close() has been called
    b_retry_count,  \* retry_count
    b_connects, \* calls of connect_interface so far
    b_delays,   \* time.sleep(RECONNECT_DELAY) calls so far
    b_queue,    \* packets published by the interface, not yet handled
    b_arrived,  \* number of packets that have arrived
    b_h,        \* on_receive in progress: [pc, from_id, channel, question]
    b_log,      \* "Received from" log lines written
    b_lost,     \* the radio behind the bot's interface is gone
    b_queries,  \* calls of query_ollama
    b_sent,     \* sendText calls made, in order
    b_handled,  \* packets on_receive has been called with, in order
    g_on,       \* "service" in SpecGui, "messages" in SpecGuiMsg, "retries" in SpecGuiRetry, else "off"
    g_running,  \* self.running
    g_interface,    \* self.interface: 0 (None) or the handle of an interface
    g_connecting,   \* self._connecting
    g_auto_reconnect,   \* config["auto_reconnect"]
    g_ai_enabled,   \* config["ai_enabled"]
    g_open,     \* handles of the interfaces that are open
    g_threads,  \* connect_thread / reconnect_thread instances in flight
    g_after,    \* callbacks pending in Tk's event queue (root.after)
    g_timers,   \* pending health, refresh and session timers
    g_failures, \* history: _on_reconnect_failure calls since the last start or success
    g_request,  \* history: the user's last request, "start" | "stop" | "none"
    g_packets,  \* packets published so far, each with its interface
    g_messages_received,    \* self.messages_received
    g_messages_sent,        \* self.messages_sent
    g_workers,  \* _process_ai_query threads whose query is in flight
    g_sends     \* record of every sendText call made by a worker

encVars == <<e_pc, e_sender, e_answer, e_bot, e_gui>>
qVars == <<q_variant, q_retries, q_pc, q_attempt, q_hist, q_sleeps, q_last_error, q_result>>
botVars == <<b_pc, b_interface, b_closed, b_retry_count, b_connects, b_delays,
             b_queue, b_arrived, b_h, b_log, b_queries, b_sent, b_handled, b_lost>>
guiMainVars == <<g_running, g_interface, g_connecting, g_auto_reconnect, g_open,
                 g_threads, g_after, g_timers>>
guiMsgVars == <<g_packets, g_messages_received, g_messages_sent, g_workers, g_sends>>
guiHistVars == <<g_failures, g_request>>
guiVars == <<g_on, g_ai_enabled, guiMainVars, guiHistVars, guiMsgVars>>
vars == <<encVars, qVars, botVars, guiVars>>

-----------------------------------------------------------------------------
(* Bounds of the model *)

MaxSenderLen == 8      \* sender ids are "!" followed by 0..MaxSenderLen characters
SmallLen == 2          \* short answers: runs of 0..SmallLen characters
Window == 15           \* runs whose byte length is within Window characters below the limit
LongLen == 250         \* a long answer (the 250-character answer of the spec's scenario)
MaxTail == 2           \* characters of a second kind that follow the run
MaxRetries == 3        \* retry limits 0..MaxRetries (3 is the default of both variants)
MaxPackets == 2        \* packets that arrive in one run
MaxOpens == 2          \* interface objects the program refers to at once
MaxThreads == 2        \* connect and reconnect threads alive at once
MsgThreads == 1        \* threads alive at once in SpecGuiMsg and SpecGuiRetry
MsgOpens == 1          \* interface objects referred to at once in those two
MaxFailures == 3        \* failed reconnect attempts counted (the count saturates)
MaxPending == 1        \* pending Tk callbacks of one kind

-----------------------------------------------------------------------------
(* Program constants *)

max_bytes == 200
MAX_MESSAGE_BYTES == 200
GuiSliceChars == 100
BotErrorChars == 60
GuiErrorChars == 50
HttpErrorTagLen == 11
NotFoundStatus == 404
max_retries == 3

-----------------------------------------------------------------------------
(* Text and UTF-8 *)

Rep(c, n) == [i \in 1..n |-> c]

\* "@", " " and "..." as code points
At == 64
Space == 32
Dot == 46
suffix == <<Dot, Dot, Dot>>

\* "!abc123" and "It's 3 PM"
SenderAbc == <<33, 97, 98, 99, 49, 50, 51>>
AnswerTime == <<73, 116, 39, 115, 32, 51, 32, 80, 77>>

\* one character of each UTF-8 width: "a", e-acute, the euro sign, an emoji
Alphabet == {97, 233, 8364, 128512}

\* str.encode('utf-8') of one code point
Utf8Char(cp) ==
    IF cp < 128 THEN <<cp>>
    ELSE IF cp < 2048 THEN <<192 + (cp \div 64), 128 + (cp % 64)>>
    ELSE IF cp < 65536 THEN
        <<224 + (cp \div 4096), 128 + ((cp \div 64) % 64), 128 + (cp % 64)>>
    ELSE <<240 + (cp \div 262144), 128 + ((cp \div 4096) % 64),
           128 + ((cp \div 64) % 64), 128 + (cp % 64)>>

\* str.encode('utf-8'): the characters' encodings in order (computed by halves)
RECURSIVE EncodeRange(_, _, _)
EncodeRange(s, lo, hi) ==
    IF lo > hi THEN <<>>
    ELSE IF lo = hi THEN Utf8Char(s[lo])
    ELSE LET mid == (lo + hi) \div 2
         IN EncodeRange(s, lo, mid) \o EncodeRange(s, mid + 1, hi)

Utf8Encode(s) == EncodeRange(s, 1, Len(s))

\* number of bytes a lead byte announces (0: not a lead byte)
SeqWidth(b) ==
    IF b < 128 THEN 1
    ELSE IF b >= 194 /\ b < 224 THEN 2
    ELSE IF b >= 224 /\ b < 240 THEN 3
    ELSE IF b >= 240 /\ b < 245 THEN 4
    ELSE 0

IsCont(b) == b >= 128 /\ b < 192

\* the code point of a complete sequence bs[i..i+w-1]
CodePoint(bs, i, w) ==
    IF w = 1 THEN bs[i]
    ELSE IF w = 2 THEN (bs[i] - 192) * 64 + (bs[i+1] - 128)
    ELSE IF w = 3 THEN (bs[i] - 224) * 4096 + (bs[i+1] - 128) * 64 + (bs[i+2] - 128)
    ELSE (bs[i] - 240) * 262144 + (bs[i+1] - 128) * 4096
         + (bs[i+2] - 128) * 64 + (bs[i+3] - 128)

\* whether a complete, well-formed sequence starts at byte i
Complete(bs, i) ==
    LET w == SeqWidth(bs[i])
    IN /\ w > 0
       /\ i + w - 1 <= Len(bs)
       /\ \A k \in 1..(w - 1) : IsCont(bs[i + k])

\* bytes.decode('utf-8', errors='ignore'): every complete sequence yields its
\* character, in order; bytes that belong to no complete sequence are dropped
\* (computed by halves of the byte range)
RECURSIVE DecodeRange(_, _, _)
DecodeRange(bs, lo, hi) ==
    IF lo > hi THEN <<>>
    ELSE IF lo = hi
         THEN IF Complete(bs, lo)
              THEN <<CodePoint(bs, lo, SeqWidth(bs[lo]))>>
              ELSE <<>>
    ELSE LET mid == (lo + hi) \div 2
         IN DecodeRange(bs, lo, mid) \o DecodeRange(bs, mid + 1, hi)

DecodeIgnore(bs) == DecodeRange(bs, 1, Len(bs))

\* Python's s[:n]
PySliceTo(s, n) ==
    IF n >= 0 THEN SubSeq(s, 1, IF n < Len(s) THEN n ELSE Len(s))
    ELSE SubSeq(s, 1, IF Len(s) + n > 0 THEN Len(s) + n ELSE 0)

ByteLen(s) == Len(Utf8Encode(s))

IsPrefixOf(p, s) == Len(p) <= Len(s) /\ SubSeq(s, 1, Len(p)) = p

-----------------------------------------------------------------------------
(* Reply composition *)

\* a variant that leaves the sender out
prefix_no_sender(from_id) == <<At, Space>>

\* f"@{from_id} "
prefix(from_id) == <<At>> \o from_id \o <<Space>>

\* f"@{from_id} {answer}"
Composed(from_id, answer) == prefix(from_id) \o answer

\* a variant that reserves no room for the "..." suffix
available_bytes_no_suffix(from_id) == max_bytes - ByteLen(prefix(from_id))

available_bytes(from_id) == max_bytes - ByteLen(prefix(from_id)) - ByteLen(suffix)

\* answer_bytes[:available_bytes].decode('utf-8', errors='ignore')
truncated(from_id, answer) ==
    DecodeIgnore(PySliceTo(Utf8Encode(answer), available_bytes(from_id)))

\* the bot's on_receive, lines 129-144
BotReply(from_id, answer) ==
    IF ByteLen(answer) > available_bytes(from_id)
    THEN prefix(from_id) \o truncated(from_id, answer) \o suffix
    ELSE prefix(from_id) \o answer

\* the GUI's _process_ai_query, lines 986-989
GuiReply(from_id, answer) ==
    IF ByteLen(Composed(from_id, answer)) > MAX_MESSAGE_BYTES
    THEN prefix(from_id) \o PySliceTo(answer, GuiSliceChars) \o suffix
    ELSE Composed(from_id, answer)

-----------------------------------------------------------------------------
(* Inputs of the reply composition *)

Width(c) == Len(Utf8Char(c))

\* run lengths: short, around the byte limit, and long
RunLens(c) ==
    (0..SmallLen)
    \cup (((MAX_MESSAGE_BYTES \div Width(c)) - Window)..((MAX_MESSAGE_BYTES \div Width(c)) + 1))
    \cup {LongLen}

Senders == {<<33>> \o Rep(97, k) : k \in 0..MaxSenderLen} \cup {SenderAbc}

Answers ==
    {Rep(c1, n1) \o Rep(c2, n2) :
        <<c1, n1, c2, n2>> \in
            {t \in Alphabet \X (0..(LongLen)) \X Alphabet \X (0..MaxTail) :
                t[2] \in RunLens(t[1]) /\ t[2] + t[4] >= 1}}
    \cup {AnswerTime}

NoText == <<0>>

\* the components a specification does not exercise
EncOff ==
    /\ e_pc = "off"
    /\ e_sender = <<>>
    /\ e_answer = <<>>
    /\ e_bot = NoText
    /\ e_gui = NoText

HandlerIdle == [pc |-> "idle", from_id |-> <<>>, channel |-> 0, question |-> <<>>]

BotOff ==
    /\ b_pc = "off"
    /\ b_interface = 0
    /\ b_closed = FALSE
    /\ b_retry_count = 0
    /\ b_connects = 0
    /\ b_delays = 0
    /\ b_queue = <<>>
    /\ b_arrived = 0
    /\ b_h = HandlerIdle
    /\ b_log = 0
    /\ b_queries = 0
    /\ b_sent = <<>>
    /\ b_handled = <<>>
    /\ b_lost = FALSE

NoCallbacks ==
    [connect_ok |-> {}, connect_fail |-> 0, reconnect_ok |-> {}, reconnect_fail |-> 0,
     do_reconnect |-> 0]

NoTimers ==
    [health_tracked |-> FALSE, health_orphans |-> 0, refresh |-> FALSE,
     session_start |-> FALSE, session_tracked |-> FALSE, session_orphans |-> 0]

GuiConstructed ==
    /\ g_running = FALSE
    /\ g_interface = 0
    /\ g_connecting = FALSE
    /\ g_open = {}
    /\ g_threads = {}
    /\ g_after = NoCallbacks
    /\ g_timers = NoTimers
    /\ g_failures = 0
    /\ g_request = "none"
    /\ g_packets = <<>>
    /\ g_messages_received = 0
    /\ g_messages_sent = 0
    /\ g_workers = {}
    /\ g_sends = {}

GuiOff ==
    /\ g_on = "off"
    /\ g_auto_reconnect = TRUE
    /\ g_ai_enabled = TRUE
    /\ GuiConstructed

QOff ==
    /\ q_variant = "off"
    /\ q_retries = 0
    /\ q_pc = "off"
    /\ q_attempt = 0
    /\ q_hist = <<>>
    /\ q_sleeps = 0
    /\ q_last_error = <<>>
    /\ q_result = NoText

EncInit ==
    /\ e_pc = "ready"
    /\ e_sender \in Senders
    /\ e_answer \in Answers
    /\ e_bot = NoText
    /\ e_gui = NoText
    /\ QOff
    /\ BotOff
    /\ GuiOff

\* on_receive composes the reply for (from_id, answer)
BotEncode ==
    /\ e_pc = "ready"
    /\ e_bot = NoText
    /\ e_bot' = BotReply(e_sender, e_answer)
    /\ e_pc' = IF e_gui # NoText THEN "done" ELSE "ready"
    /\ UNCHANGED <<e_sender, e_answer, e_gui, qVars, botVars, guiVars>>

\* _process_ai_query composes the reply for (from_id, answer)
GuiEncode ==
    /\ e_pc = "ready"
    /\ e_gui = NoText
    /\ e_gui' = GuiReply(e_sender, e_answer)
    /\ e_pc' = IF e_bot # NoText THEN "done" ELSE "ready"
    /\ UNCHANGED <<e_sender, e_answer, e_bot, qVars, botVars, guiVars>>

EncNext == BotEncode \/ GuiEncode

SpecEnc == EncInit /\ [][EncNext]_vars

-----------------------------------------------------------------------------
(* The query client: query_ollama (bot) and _query_ollama (GUI) *)

\* 'No response.'
StrNoResponse ==
    <<78, 111, 32, 114, 101, 115, 112, 111, 110, 115, 101, 46>>

\* 'None'
StrNone ==
    <<78, 111, 110, 101>>

\* 'Error: '
StrErrorBot ==
    <<69, 114, 114, 111, 114, 58, 32>>

\* 'AI Error: '
StrAIError ==
    <<65, 73, 32, 69, 114, 114, 111, 114, 58, 32>>

\* "AI Error: Model 'llama3.1' not found. Check Settings."
StrModelNotFound ==
    <<65, 73, 32, 69, 114, 114, 111, 114, 58, 32, 77, 111, 100, 101, 108,
      32, 39, 108, 108, 97, 109, 97, 51, 46, 49, 39, 32, 110, 111, 116, 32,
      102, 111, 117, 110, 100, 46, 32, 67, 104, 101, 99, 107, 32, 83, 101,
      116, 116, 105, 110, 103, 115, 46>>

\* 'AI Error: Cannot connect to Ollama. Is it running? (http://127.0.0.1:11434/api/generate)'
StrCannotConnect ==
    <<65, 73, 32, 69, 114, 114, 111, 114, 58, 32, 67, 97, 110, 110, 111,
      116, 32, 99, 111, 110, 110, 101, 99, 116, 32, 116, 111, 32, 79, 108,
      108, 97, 109, 97, 46, 32, 73, 115, 32, 105, 116, 32, 114, 117, 110,
      110, 105, 110, 103, 63, 32, 40, 104, 116, 116, 112, 58, 47, 47, 49,
      50, 55, 46, 48, 46, 48, 46, 49, 58, 49, 49, 52, 51, 52, 47, 97, 112,
      105, 47, 103, 101, 110, 101, 114, 97, 116, 101, 41>>

\* 'AI Error: Ollama took too long to respond. Try again.'
StrTookTooLong ==
    <<65, 73, 32, 69, 114, 114, 111, 114, 58, 32, 79, 108, 108, 97, 109,
      97, 32, 116, 111, 111, 107, 32, 116, 111, 111, 32, 108, 111, 110,
      103, 32, 116, 111, 32, 114, 101, 115, 112, 111, 110, 100, 46, 32, 84,
      114, 121, 32, 97, 103, 97, 105, 110, 46>>

\* 'connection_error'
StrConnectionError ==
    <<99, 111, 110, 110, 101, 99, 116, 105, 111, 110, 95, 101, 114, 114,
      111, 114>>

\* 'timeout'
StrTimeout ==
    <<116, 105, 109, 101, 111, 117, 116>>

\* 'http_error:'
StrHttpErrorColon ==
    <<104, 116, 116, 112, 95, 101, 114, 114, 111, 114, 58>>

\* 'Connection refused'
MsgRefused ==
    <<67, 111, 110, 110, 101, 99, 116, 105, 111, 110, 32, 114, 101, 102,
      117, 115, 101, 100>>

\* 'Connection to 127.0.0.1 timed out.'
MsgConnectTimeout ==
    <<67, 111, 110, 110, 101, 99, 116, 105, 111, 110, 32, 116, 111, 32, 49,
      50, 55, 46, 48, 46, 48, 46, 49, 32, 116, 105, 109, 101, 100, 32, 111,
      117, 116, 46>>

\* 'Read timed out. (read timeout=90)'
MsgReadTimeout ==
    <<82, 101, 97, 100, 32, 116, 105, 109, 101, 100, 32, 111, 117, 116, 46,
      32, 40, 114, 101, 97, 100, 32, 116, 105, 109, 101, 111, 117, 116, 61,
      57, 48, 41>>

\* '404 Client Error: Not Found for url: http://127.0.0.1:11434/api/generate'
Msg404 ==
    <<52, 48, 52, 32, 67, 108, 105, 101, 110, 116, 32, 69, 114, 114, 111,
      114, 58, 32, 78, 111, 116, 32, 70, 111, 117, 110, 100, 32, 102, 111,
      114, 32, 117, 114, 108, 58, 32, 104, 116, 116, 112, 58, 47, 47, 49,
      50, 55, 46, 48, 46, 48, 46, 49, 58, 49, 49, 52, 51, 52, 47, 97, 112,
      105, 47, 103, 101, 110, 101, 114, 97, 116, 101>>

\* '400 Client Error: Bad Request for url: http://127.0.0.1:11434/api/generate'
Msg400 ==
    <<52, 48, 48, 32, 67, 108, 105, 101, 110, 116, 32, 69, 114, 114, 111,
      114, 58, 32, 66, 97, 100, 32, 82, 101, 113, 117, 101, 115, 116, 32,
      102, 111, 114, 32, 117, 114, 108, 58, 32, 104, 116, 116, 112, 58, 47,
      47, 49, 50, 55, 46, 48, 46, 48, 46, 49, 58, 49, 49, 52, 51, 52, 47,
      97, 112, 105, 47, 103, 101, 110, 101, 114, 97, 116, 101>>

\* '500 Server Error: Internal Server Error for url: http://127.0.0.1:11434/api/generate'
Msg500 ==
    <<53, 48, 48, 32, 83, 101, 114, 118, 101, 114, 32, 69, 114, 114, 111,
      114, 58, 32, 73, 110, 116, 101, 114, 110, 97, 108, 32, 83, 101, 114,
      118, 101, 114, 32, 69, 114, 114, 111, 114, 32, 102, 111, 114, 32,
      117, 114, 108, 58, 32, 104, 116, 116, 112, 58, 47, 47, 49, 50, 55,
      46, 48, 46, 48, 46, 49, 58, 49, 49, 52, 51, 52, 47, 97, 112, 105, 47,
      103, 101, 110, 101, 114, 97, 116, 101>>

\* 'Expecting value: line 1 column 1 (char 0)'
MsgJson ==
    <<69, 120, 112, 101, 99, 116, 105, 110, 103, 32, 118, 97, 108, 117,
      101, 58, 32, 108, 105, 110, 101, 32, 49, 32, 99, 111, 108, 117, 109,
      110, 32, 49, 32, 40, 99, 104, 97, 114, 32, 48, 41>>

\* '  ok \n'
BodyPadded ==
    <<32, 32, 111, 107, 32, 10>>

\* '  '
BodyBlank ==
    <<32, 32>>

\* last_error = None
NoneVal == <<-1>>

\* str(x)
Str(x) == IF x = NoneVal THEN StrNone ELSE x

IsSpace(c) == c \in {9, 10, 11, 12, 13, 32}

SetMin(S) == CHOOSE x \in S : \A y \in S : x <= y
SetMax(S) == CHOOSE x \in S : \A y \in S : x >= y

\* a variant that removes nothing
Strip_nothing(s) == s

\* str.strip()
Strip(s) ==
    LET keep == {i \in 1..Len(s) : ~IsSpace(s[i])}
    IN IF keep = {} THEN <<>> ELSE SubSeq(s, SetMin(keep), SetMax(keep))

\* Python's s[n:] for n >= 0
PySliceFrom(s, n) == SubSeq(s, n + 1, Len(s))

\* What one requests.post + raise_for_status + response.json() can do: a
\* response whose "response" field is body ("" when the field is missing), or
\* an exception of class kind whose str() is body.  ConnectTimeout is both a
\* ConnectionError and a Timeout.
Outcome(kind, status, body) == [kind |-> kind, status |-> status, body |-> body]

OkOutcomes == {Outcome("ok", 200, b) : b \in {AnswerTime, <<>>, BodyBlank, BodyPadded}}

FailOutcomes ==
    { Outcome("ConnectionError", 0, MsgRefused),
      Outcome("ConnectTimeout", 0, MsgConnectTimeout),
      Outcome("ReadTimeout", 0, MsgReadTimeout),
      Outcome("HTTPError", NotFoundStatus, Msg404),
      Outcome("HTTPError", 400, Msg400),
      Outcome("HTTPError", 500, Msg500),
      Outcome("Other", 0, MsgJson),
      Outcome("Other", 0, <<>>) }

Outcomes == OkOutcomes \cup FailOutcomes

\* every class above derives from Exception
IsException(o) == o.kind \in {"ConnectionError", "ConnectTimeout", "ReadTimeout", "HTTPError", "Other"}

\* a variant that returns the stripped field as it is
SuccessText_bare(o) == Strip(o.body)

\* result or "No response."
SuccessText(o) == IF Strip(o.body) = <<>> THEN StrNoResponse ELSE Strip(o.body)

\* a loop that makes one attempt too few
InRange_one_short(attempt, retries) == attempt < retries - 1

\* for attempt in range(retries)
InRange(attempt, retries) == attempt < retries

\* a variant that sleeps after the last attempt as well
SleepBeforeRetry_always(attempt, retries) == attempt < retries

\* if attempt < retries - 1: time.sleep(delay)
SleepBeforeRetry(attempt, retries) == attempt < retries - 1

\* return f"Error: {str(last_error)[:60]}"
BotDiagnostic(last_error) == StrErrorBot \o PySliceTo(Str(last_error), BotErrorChars)

\* the GUI's user-friendly error messages, lines 1054-1062
GuiDiagnostic(last_error) ==
    IF last_error = StrConnectionError THEN StrCannotConnect
    ELSE IF last_error = StrTimeout THEN StrTookTooLong
    ELSE IF last_error # NoneVal /\ IsPrefixOf(StrHttpErrorColon, last_error)
    THEN StrAIError \o PySliceTo(PySliceFrom(last_error, HttpErrorTagLen), GuiErrorChars)
    ELSE StrAIError \o PySliceTo(Str(last_error), GuiErrorChars)

Diagnostic(variant, last_error) ==
    IF variant = "bot" THEN BotDiagnostic(last_error) ELSE GuiDiagnostic(last_error)

\* except clauses that name only the requests exception classes
Caught_requests_only(variant, o) ==
    o.kind \in {"ConnectionError", "ConnectTimeout", "ReadTimeout", "HTTPError"}

\* the exception classes the variant's except clauses catch
Caught(variant, o) == IsException(o)

\* a check against the wrong status code
GuiTerminal_wrong_status(o) == o.kind = "HTTPError" /\ o.status = 400

\* the GUI returns at once on HTTP 404 (e.response.status_code == 404)
GuiTerminal(o) == o.kind = "HTTPError" /\ o.status = NotFoundStatus

\* a variant that files a read timeout under the connection errors
LastError_timeout_as_connection(variant, o) ==
    IF variant = "bot" THEN o.body
    ELSE IF o.kind \in {"ConnectionError", "ConnectTimeout", "ReadTimeout"}
    THEN StrConnectionError
    ELSE IF o.kind = "HTTPError" THEN StrHttpErrorColon \o o.body
    ELSE o.body

\* the value the except clause stores in last_error
LastError(variant, o) ==
    IF variant = "bot" THEN o.body
    ELSE IF o.kind \in {"ConnectionError", "ConnectTimeout"} THEN StrConnectionError
    ELSE IF o.kind = "ReadTimeout" THEN StrTimeout
    ELSE IF o.kind = "HTTPError" THEN StrHttpErrorColon \o o.body
    ELSE o.body

QInit ==
    /\ q_variant \in {"bot", "gui"}
    /\ q_retries \in 0..MaxRetries
    /\ q_pc = "call"
    /\ q_attempt = 0
    /\ q_hist = <<>>
    /\ q_sleeps = 0
    /\ q_last_error = NoneVal
    /\ q_result = NoText
    /\ EncOff
    /\ BotOff
    /\ GuiOff

\* the call enters the for loop, or falls through it when retries <= 0
QEnter ==
    /\ q_pc = "call"
    /\ IF InRange(0, q_retries)
       THEN q_pc' = "request" /\ q_result' = q_result
       ELSE q_pc' = "done" /\ q_result' = Diagnostic(q_variant, q_last_error)
    /\ UNCHANGED <<q_variant, q_retries, q_attempt, q_hist, q_sleeps, q_last_error, encVars, botVars, guiVars>>

\* one iteration of the loop up to its sleep: the request and its except clause
QRequest ==
    /\ q_pc = "request"
    /\ \E o \in Outcomes :
        /\ q_hist' = Append(q_hist, o)
        /\ IF o.kind = "ok"
           THEN /\ q_pc' = "done"
                /\ q_result' = SuccessText(o)
                /\ UNCHANGED <<q_attempt, q_last_error>>
           ELSE IF ~Caught(q_variant, o)
           THEN /\ q_pc' = "raised"
                /\ UNCHANGED <<q_attempt, q_last_error, q_result>>
           ELSE IF q_variant = "gui" /\ GuiTerminal(o)
           THEN /\ q_pc' = "done"
                /\ q_result' = StrModelNotFound
                /\ UNCHANGED <<q_attempt, q_last_error>>
           ELSE /\ q_last_error' = LastError(q_variant, o)
                /\ IF SleepBeforeRetry(q_attempt, q_retries)
                   THEN /\ q_pc' = "sleep"
                        /\ UNCHANGED <<q_attempt, q_result>>
                   ELSE IF InRange(q_attempt + 1, q_retries)
                   THEN /\ q_pc' = "request"
                        /\ q_attempt' = q_attempt + 1
                        /\ UNCHANGED q_result
                   ELSE /\ q_pc' = "done"
                        /\ q_attempt' = q_attempt
                        /\ q_result' = Diagnostic(q_variant, LastError(q_variant, o))
    /\ UNCHANGED <<q_variant, q_retries, q_sleeps, encVars, botVars, guiVars>>

\* time.sleep(delay) returns and the loop goes on
QSleep ==
    /\ q_pc = "sleep"
    /\ q_sleeps' = q_sleeps + 1
    /\ IF InRange(q_attempt + 1, q_retries)
       THEN q_pc' = "request" /\ q_attempt' = q_attempt + 1 /\ q_result' = q_result
       ELSE /\ q_pc' = "done"
            /\ q_attempt' = q_attempt
            /\ q_result' = Diagnostic(q_variant, q_last_error)
    /\ UNCHANGED <<q_variant, q_retries, q_hist, q_last_error, encVars, botVars, guiVars>>

QueryNext == QEnter \/ QRequest \/ QSleep

SpecQuery == QInit /\ [][QueryNext]_vars

\* requests.post returns or raises within its timeout and time.sleep returns
SpecQueryLive == QInit /\ [][QueryNext]_vars /\ WF_vars(QueryNext)

-----------------------------------------------------------------------------
(* Message routing: the part of on_receive / _on_receive before the query *)

\* '/AI'
AI_PREFIX ==
    <<47, 65, 73>>

\* 'unknown'
StrUnknown ==
    <<117, 110, 107, 110, 111, 119, 110>>

\* 'hello everyone'
TextHello ==
    <<104, 101, 108, 108, 111, 32, 101, 118, 101, 114, 121, 111, 110, 101>>

\* '/AI what time is it'
TextQuery ==
    <<47, 65, 73, 32, 119, 104, 97, 116, 32, 116, 105, 109, 101, 32, 105,
      115, 32, 105, 116>>

\* '  /ai what time is it '
TextQueryLower ==
    <<32, 32, 47, 97, 105, 32, 119, 104, 97, 116, 32, 116, 105, 109, 101,
      32, 105, 115, 32, 105, 116, 32>>

\* '/AI'
TextBarePrefix ==
    <<47, 65, 73>>

\* '/Ai   '
TextPrefixBlank ==
    <<47, 65, 105, 32, 32, 32>>

\* '   '
TextBlank ==
    <<32, 32, 32>>

\* 'what time is it'
QuestionTime ==
    <<119, 104, 97, 116, 32, 116, 105, 109, 101, 32, 105, 115, 32, 105, 116>>

\* '!a1b2c3d4'
SenderOther ==
    <<33, 97, 49, 98, 50, 99, 51, 100, 52>>

\* packet.get("fromId", "unknown") and packet.get("channel", 0) on a packet
\* that lacks the key
Missing == -1

\* a packet of the "meshtastic.receive" topic
Packet(decoded, portnum, text, fromId, channel) ==
    [decoded |-> decoded, portnum |-> portnum, text |-> text,
     fromId |-> fromId, channel |-> channel]

Packets ==
    { Packet(FALSE, "", <<>>, <<Missing>>, Missing),
      Packet(TRUE, "POSITION_APP", <<>>, SenderAbc, 0),
      Packet(TRUE, "TEXT_MESSAGE_APP", <<>>, SenderAbc, 0),
      Packet(TRUE, "TEXT_MESSAGE_APP", TextBlank, SenderAbc, 1),
      Packet(TRUE, "TEXT_MESSAGE_APP", TextHello, SenderAbc, 0),
      Packet(TRUE, "TEXT_MESSAGE_APP", TextBarePrefix, SenderAbc, 0),
      Packet(TRUE, "TEXT_MESSAGE_APP", TextPrefixBlank, SenderOther, 1),
      Packet(TRUE, "TEXT_MESSAGE_APP", TextQuery, SenderAbc, 0),
      Packet(TRUE, "TEXT_MESSAGE_APP", TextQuery, <<Missing>>, Missing),
      Packet(TRUE, "TEXT_MESSAGE_APP", TextQueryLower, SenderOther, 1) }

\* str.upper() (ASCII letters)
Upper(s) == [i \in 1..Len(s) |-> IF s[i] >= 97 /\ s[i] <= 122 THEN s[i] - 32 ELSE s[i]]

\* a variant that compares lengths only
HasPrefix_by_length(text, pfx) == Len(text) >= Len(pfx)

\* text.upper().startswith(prefix.upper())
HasPrefix(text, pfx) == IsPrefixOf(Upper(pfx), Upper(text))

\* lines 102-123 of on_receive (943-974 of _on_receive): what the handler
\* does with a packet before any query.  stage is "ignored" (returned before
\* the log line), "logged" (logged, no query) or "query".
Route(packet, pfx) ==
    LET text == Strip(packet.text)
        from_id == IF packet.fromId = <<Missing>> THEN StrUnknown ELSE packet.fromId
        channel == IF packet.channel = Missing THEN 0 ELSE packet.channel
        question == Strip(PySliceFrom(text, Len(pfx)))
        stage == IF ~packet.decoded THEN "ignored"
                 ELSE IF packet.portnum # "TEXT_MESSAGE_APP" THEN "ignored"
                 ELSE IF text = <<>> THEN "ignored"
                 ELSE IF ~HasPrefix(text, pfx) THEN "logged"
                 ELSE IF question = <<>> THEN "logged"
                 ELSE "query"
    IN [stage |-> stage, from_id |-> from_id, channel |-> channel,
        text |-> text, question |-> question]

-----------------------------------------------------------------------------
(* The CLI bot: main() and on_receive *)

\* answers query_ollama can return to on_receive
BotAnswers == {AnswerTime, Rep(97, LongLen), BotDiagnostic(MsgRefused)}

\* a variant that gives up one failure late
GiveUp_late(retry_count) == retry_count > max_retries

\* if retry_count >= max_retries: return
GiveUp(retry_count) == retry_count >= max_retries

BotRunning == b_pc \in {"connect", "delay", "listen"}

BotInit ==
    /\ b_interface \in {0, 1}     \* None, or the interface interactive_setup returned
    /\ b_pc = IF b_interface = 0 THEN "connect" ELSE "listen"
    /\ b_closed = FALSE
    /\ b_retry_count = 0
    /\ b_connects = 0
    /\ b_delays = 0
    /\ b_queue = <<>>
    /\ b_arrived = 0
    /\ b_h = HandlerIdle
    /\ b_log = 0
    /\ b_queries = 0
    /\ b_sent = <<>>
    /\ b_handled = <<>>
    /\ b_lost = FALSE
    /\ EncOff
    /\ QOff
    /\ GuiOff

\* main, lines 348-371: connect_interface() returns None (it does so for
\* every exception class)
BotConnectFails ==
    /\ b_pc = "connect"
    /\ b_interface = 0
    /\ b_connects' = b_connects + 1
    /\ b_retry_count' = b_retry_count + 1
    /\ b_pc' = IF GiveUp(b_retry_count + 1) THEN "failed" ELSE "delay"
    /\ UNCHANGED <<b_interface, b_closed, b_delays, b_queue, b_arrived, b_h, b_log,
                   b_queries, b_sent, b_handled, b_lost,
                   encVars, qVars, guiVars>>

\* main, lines 348-379: connect_interface() returns an interface
BotConnectSucceeds ==
    /\ b_pc = "connect"
    /\ b_interface = 0
    /\ b_connects' = b_connects + 1
    /\ b_interface' = 1
    /\ b_retry_count' = 0
    /\ b_pc' = "listen"
    /\ UNCHANGED <<b_closed, b_delays, b_queue, b_arrived, b_h, b_log,
                   b_queries, b_sent, b_handled, b_lost,
                   encVars, qVars, guiVars>>

\* time.sleep(RECONNECT_DELAY) returns; continue
BotDelayDone ==
    /\ b_pc = "delay"
    /\ b_delays' = b_delays + 1
    /\ b_pc' = "connect"
    /\ UNCHANGED <<b_interface, b_closed, b_retry_count, b_connects, b_queue, b_arrived,
                   b_h, b_log, b_queries, b_sent, b_handled, b_lost,
                   encVars, qVars, guiVars>>

\* main, lines 377-379 with an interface: time.sleep(1) returns and the loop
\* goes round (time.sleep raises no Exception, so lines 380-392 never run)
BotListenTick ==
    /\ b_pc = "listen"
    /\ b_interface # 0
    /\ UNCHANGED vars

\* the radio is unplugged or powered off while main is in its listening loop;
\* nothing in main or on_receive is told
BotTransportLost ==
    /\ b_pc = "listen"
    /\ b_interface # 0
    /\ ~b_lost
    /\ b_lost' = TRUE
    /\ UNCHANGED <<b_pc, b_interface, b_closed, b_retry_count, b_connects, b_delays,
                   b_queue, b_arrived, b_h, b_log, b_queries, b_sent, b_handled,
                   encVars, qVars, guiVars>>

\* KeyboardInterrupt, lines 394-398: the finally clause closes the interface;
\* an exception of close() leaves main
BotInterrupt ==
    /\ BotRunning
    /\ IF b_interface # 0
       THEN /\ b_closed' = TRUE
            /\ \E close_raises \in BOOLEAN :
                  b_pc' = IF close_raises THEN "exit_error" ELSE "exited"
       ELSE /\ b_closed' = b_closed
            /\ b_pc' = "exited"
    /\ UNCHANGED <<b_interface, b_retry_count, b_connects, b_delays, b_queue, b_arrived,
                   b_h, b_log, b_queries, b_sent, b_handled, b_lost,
                   encVars, qVars, guiVars>>

\* the open interface publishes a packet its radio received
BotPacketArrives ==
    /\ BotRunning
    /\ b_interface # 0
    /\ ~b_lost
    /\ b_arrived < MaxPackets
    /\ \E pkt \in Packets : b_queue' = Append(b_queue, pkt)
    /\ b_arrived' = b_arrived + 1
    /\ UNCHANGED <<b_pc, b_interface, b_closed, b_retry_count, b_connects, b_delays,
                   b_h, b_log, b_queries, b_sent, b_handled, b_lost,
                   encVars, qVars, guiVars>>

\* on_receive, lines 101-127: up to the call of query_ollama
BotOnReceive ==
    /\ BotRunning
    /\ b_h.pc = "idle"
    /\ b_queue # <<>>
    /\ LET r == Route(Head(b_queue), AI_PREFIX)
       IN /\ b_queue' = Tail(b_queue)
          /\ b_handled' = Append(b_handled, Head(b_queue))
          /\ b_log' = IF r.stage = "ignored" THEN b_log ELSE b_log + 1
          /\ IF r.stage = "query"
             THEN /\ b_h' = [pc |-> "query", from_id |-> r.from_id,
                             channel |-> r.channel, question |-> r.question]
                  /\ b_queries' = b_queries + 1
             ELSE UNCHANGED <<b_h, b_queries>>
    /\ UNCHANGED <<b_pc, b_interface, b_closed, b_retry_count, b_connects, b_delays,
                   b_arrived, b_sent, b_lost,
                   encVars, qVars, guiVars>>

\* lines 155-158: the line the handler logs after the sendText call
SendLog(raised) == IF raised THEN "Send failed" ELSE "Reply sent successfully"

\* on_receive, lines 127-159: query_ollama returns, the reply is composed and
\* handed to sendText once; an exception of sendText is logged
BotReply_Send ==
    /\ BotRunning
    /\ b_h.pc = "query"
    /\ \E answer \in BotAnswers, send_raises \in BOOLEAN :
          b_sent' = Append(b_sent, [text |-> BotReply(b_h.from_id, answer),
                                    channel |-> b_h.channel,
                                    from_id |-> b_h.from_id,
                                    id |-> Len(b_handled),
                                    destinationId |-> Missing,
                                    raised |-> send_raises,
                                    log |-> SendLog(send_raises)])
    /\ b_h' = HandlerIdle
    /\ UNCHANGED <<b_pc, b_interface, b_closed, b_retry_count, b_connects, b_delays,
                   b_queue, b_arrived, b_log, b_queries, b_handled, b_lost,
                   encVars, qVars, guiVars>>

BotNext ==
    \/ BotConnectFails
    \/ BotConnectSucceeds
    \/ BotDelayDone
    \/ BotListenTick
    \/ BotTransportLost
    \/ BotInterrupt
    \/ BotPacketArrives
    \/ BotOnReceive
    \/ BotReply_Send

SpecBot == BotInit /\ [][BotNext]_vars

\* main's loop and the thread that runs on_receive keep running
BotLiveness ==
    /\ WF_vars(BotConnectFails \/ BotConnectSucceeds)
    /\ WF_vars(BotDelayDone)
    /\ WF_vars(BotListenTick)
    /\ WF_vars(BotOnReceive)
    /\ WF_vars(BotReply_Send)

SpecBotLive == BotInit /\ [][BotNext]_vars /\ BotLiveness

-----------------------------------------------------------------------------
(* The GUI: service lifecycle on Tk's main thread *)

\* The fields the main-thread handlers read and write, as one record, so that
\* a handler that calls other handlers is the composition of their effects.
Main ==
    [running |-> g_running, interface |-> g_interface, connecting |-> g_connecting,
     auto_reconnect |-> g_auto_reconnect, open |-> g_open,
     threads |-> g_threads, after |-> g_after,
     timers |-> g_timers]

GuiOn == g_on # "off"

\* SpecGuiMsg and SpecGuiRetry follow a service with fewer threads and interfaces
ThreadLimit == IF g_on = "service" THEN MaxThreads ELSE MsgThreads
OpenLimit == IF g_on = "service" THEN MaxOpens ELSE MsgOpens

\* failed reconnect attempts are counted in SpecGuiRetry only
FailureLimit == IF g_on = "retries" THEN MaxFailures ELSE 0

\* the user's requests are remembered in SpecGuiRetry only
Requested(request) == IF g_on = "retries" THEN request ELSE g_request

\* the model follows at most ThreadLimit threads and MaxPending callbacks of a kind
Bounded(n) ==
    /\ Cardinality(n.threads) <= ThreadLimit
    /\ n.after.connect_fail <= MaxPending
    /\ n.after.reconnect_fail <= MaxPending
    /\ n.after.do_reconnect <= MaxPending

Apply(n) ==
    /\ Bounded(n)
    /\ g_running' = n.running
    /\ g_interface' = n.interface
    /\ g_connecting' = n.connecting
    /\ g_auto_reconnect' = n.auto_reconnect
    /\ g_open' = n.open
    /\ g_threads' = n.threads
    /\ g_after' = n.after
    /\ g_timers' = n.timers

\* _update_status(running, ...)
UpdateStatus(m, running) == [m EXCEPT !.running = running]

\* threading.Thread(target=connect_thread / reconnect_thread).start()
SpawnThread(m, kind) ==
    LET used == {t.tid : t \in m.threads}
        tid == SetMin((1..(Cardinality(m.threads) + 1)) \ used)
    IN [m EXCEPT !.threads = @ \cup {[tid |-> tid, kind |-> kind,
                                      pc |-> "creating", iface |-> 0]}]

\* _stop_refresh_timer / _start_refresh_timer
StopRefreshTimer(m) == [m EXCEPT !.timers.refresh = FALSE]
StartRefreshTimer(m) == [StopRefreshTimer(m) EXCEPT !.timers.refresh = TRUE]

\* _update_session_timer: schedules the next tick without cancelling a pending one
UpdateSessionTimer(m) ==
    IF ~m.timers.session_start THEN m
    ELSE IF m.timers.session_tracked
    THEN [m EXCEPT !.timers.session_orphans = @ + 1]
    ELSE [m EXCEPT !.timers.session_tracked = TRUE]

\* _start_session_timer
StartSessionTimer(m) == UpdateSessionTimer([m EXCEPT !.timers.session_start = TRUE])

\* _stop_session_timer
StopSessionTimer(m) ==
    [m EXCEPT !.timers.session_tracked = FALSE, !.timers.session_start = FALSE]

\* a variant that leaves the pending check in place
StopConnectionCheck_keeps(m) == m

\* _stop_connection_check: cancels the timer connection_check_id names
StopConnectionCheck(m) == [m EXCEPT !.timers.health_tracked = FALSE]

\* self.connection_check_id = self.root.after(10000, ...): a pending timer
\* whose id is overwritten can no longer be cancelled
ScheduleHealthCheck(m) ==
    IF m.timers.health_tracked
    THEN [m EXCEPT !.timers.health_orphans = @ + 1]
    ELSE [m EXCEPT !.timers.health_tracked = TRUE]

\* _handle_disconnect: close() errors are swallowed
HandleDisconnect(m) ==
    LET a == StopSessionTimer(StopRefreshTimer([m EXCEPT !.running = FALSE]))
        b == IF a.interface # 0
             THEN [a EXCEPT !.open = @ \ {a.interface}, !.interface = 0]
             ELSE a
    IN UpdateStatus(b, FALSE)

\* _attempt_reconnect: clean up, then root.after(2000, self._do_reconnect)
AttemptReconnect(m) ==
    [HandleDisconnect(m) EXCEPT !.after.do_reconnect = @ + 1]

\* a variant that schedules the next check after a failed probe as well
CheckConnectionHealth_reschedules(m, probe_raises) ==
    IF ~m.running \/ m.interface = 0 THEN m
    ELSE ScheduleHealthCheck(
            IF probe_raises
            THEN IF m.auto_reconnect THEN AttemptReconnect(m) ELSE HandleDisconnect(m)
            ELSE m)

\* _check_connection_health; probe_raises: self.interface.myInfo raises
CheckConnectionHealth(m, probe_raises) ==
    IF ~m.running \/ m.interface = 0 THEN m
    ELSE IF probe_raises
    THEN IF m.auto_reconnect THEN AttemptReconnect(m) ELSE HandleDisconnect(m)
    ELSE ScheduleHealthCheck(m)

\* _start_connection_check
StartConnectionCheck(m, probe_raises) ==
    CheckConnectionHealth(StopConnectionCheck(m), probe_raises)

\* _on_connect_success and _on_reconnect_success (the same statements)
OnConnectSuccess(m, h, probe_raises) ==
    LET a == [m EXCEPT !.connecting = FALSE, !.interface = h]
        b == UpdateStatus([a EXCEPT !.running = TRUE], TRUE)
    IN StartConnectionCheck(StartSessionTimer(StartRefreshTimer(b)), probe_raises)

\* _on_connect_failure
OnConnectFailure(m) == UpdateStatus([m EXCEPT !.connecting = FALSE], FALSE)

\* a variant that retries whatever auto_reconnect says
OnReconnectFailure_always(m) ==
    [m EXCEPT !.connecting = FALSE, !.after.do_reconnect = @ + 1]

\* _on_reconnect_failure
OnReconnectFailure(m) ==
    LET a == [m EXCEPT !.connecting = FALSE]
    IN IF a.auto_reconnect THEN [a EXCEPT !.after.do_reconnect = @ + 1] ELSE a

\* whether start_service gets past its two early returns
StartServiceProceeds(m) == ~m.running /\ ~m.connecting

\* start_service
StartService(m) ==
    IF ~StartServiceProceeds(m) THEN m
    ELSE SpawnThread(UpdateStatus([m EXCEPT !.connecting = TRUE], FALSE), "connect")

\* whether _do_reconnect gets past its early return
DoReconnectProceeds(m) == ~m.connecting

\* _do_reconnect
DoReconnect(m) ==
    IF ~DoReconnectProceeds(m) THEN m
    ELSE SpawnThread([m EXCEPT !.connecting = TRUE], "reconnect")

\* a variant that forgets the handle before it closes it
StopService_forgets(m, close_raises, still_open) ==
    IF m.connecting THEN UpdateStatus([m EXCEPT !.connecting = FALSE], FALSE)
    ELSE IF ~m.running THEN m
    ELSE LET a == StopConnectionCheck(StopSessionTimer(StopRefreshTimer(m)))
         IN IF a.interface = 0 THEN UpdateStatus(a, FALSE)
            ELSE IF close_raises
            THEN IF still_open THEN [a EXCEPT !.interface = 0]
                 ELSE [a EXCEPT !.open = @ \ {a.interface}, !.interface = 0]
            ELSE UpdateStatus([a EXCEPT !.open = @ \ {a.interface}, !.interface = 0], FALSE)

\* stop_service; close_raises: self.interface.close() raises, and then
\* still_open tells whether the transport stayed open
StopService(m, close_raises, still_open) ==
    IF m.connecting THEN UpdateStatus([m EXCEPT !.connecting = FALSE], FALSE)
    ELSE IF ~m.running THEN m
    ELSE LET a == StopConnectionCheck(StopSessionTimer(StopRefreshTimer(m)))
         IN IF a.interface = 0 THEN UpdateStatus(a, FALSE)
            ELSE IF close_raises
            THEN IF still_open THEN a ELSE [a EXCEPT !.open = @ \ {a.interface}]
            ELSE UpdateStatus([a EXCEPT !.open = @ \ {a.interface}, !.interface = 0], FALSE)

GuiInit ==
    /\ g_on = "service"
    /\ g_auto_reconnect \in BOOLEAN
    /\ g_ai_enabled = TRUE
    /\ GuiConstructed
    /\ EncOff
    /\ QOff
    /\ BotOff

NotGui == <<encVars, qVars, botVars, g_on, g_ai_enabled>>

\* the user presses Start (or the auto_start timer fires)
GuiStartService ==
    /\ GuiOn
    /\ Apply(StartService(Main))
    /\ g_failures' = IF StartServiceProceeds(Main) THEN 0 ELSE g_failures
    /\ g_request' = Requested("start")
    /\ UNCHANGED <<NotGui, guiMsgVars>>

\* the user presses Stop
GuiStopService ==
    /\ GuiOn
    /\ \E close_raises \in BOOLEAN, still_open \in BOOLEAN :
          Apply(StopService(Main, close_raises, still_open))
    /\ g_request' = Requested("stop")
    /\ UNCHANGED g_failures
    /\ UNCHANGED <<NotGui, guiMsgVars>>

\* the user saves the radio dialog with the auto-reconnect box changed
GuiSetAutoReconnect ==
    /\ GuiOn
    /\ g_auto_reconnect' = ~g_auto_reconnect
    /\ UNCHANGED guiHistVars
    /\ UNCHANGED <<NotGui, guiMsgVars, g_running, g_interface, g_connecting, g_open,
                   g_threads, g_after, g_timers>>

\* handles some part of the program still refers to
KnownHandles ==
    g_open \cup {g_interface} \cup {t.iface : t \in g_threads}
        \cup g_after.connect_ok \cup g_after.reconnect_ok
        \cup {w.interface : w \in g_workers} \cup {s.interface : s \in g_sends}
        \cup {g_packets[i].interface : i \in 1..Len(g_packets)}

\* names left for a new interface object; at most OpenLimit are followed at once
FreeHandles == (1..OpenLimit) \ KnownHandles

\* connect_thread / reconnect_thread: _create_interface() returns or raises
GuiThreadCreate ==
    /\ GuiOn
    /\ \E t \in g_threads, ok \in BOOLEAN :
        /\ t.pc = "creating"
        /\ ok => FreeHandles # {}
        /\ IF ok
           THEN /\ g_open' = g_open \cup {SetMin(FreeHandles)}
                /\ g_threads' = (g_threads \ {t})
                        \cup {[t EXCEPT !.pc = "created", !.iface = SetMin(FreeHandles)]}
           ELSE /\ g_threads' = (g_threads \ {t}) \cup {[t EXCEPT !.pc = "failed"]}
                /\ UNCHANGED g_open
    /\ UNCHANGED guiHistVars
    /\ UNCHANGED <<NotGui, guiMsgVars, g_running, g_interface, g_connecting,
                   g_auto_reconnect, g_after, g_timers>>

\* the thread posts its result with root.after(0, ...); reconnect_thread ends here
GuiThreadPost ==
    /\ GuiOn
    /\ \E t \in g_threads :
        /\ t.pc \in {"created", "failed"}
        /\ g_after' =
             IF t.kind = "connect"
             THEN IF t.pc = "created"
                  THEN [g_after EXCEPT !.connect_ok = @ \cup {t.iface}]
                  ELSE [g_after EXCEPT !.connect_fail = @ + 1]
             ELSE IF t.pc = "created"
                  THEN [g_after EXCEPT !.reconnect_ok = @ \cup {t.iface}]
                  ELSE [g_after EXCEPT !.reconnect_fail = @ + 1]
        /\ Bounded([Main EXCEPT !.after = g_after'])
        /\ g_threads' =
             IF t.kind = "connect"
             THEN (g_threads \ {t}) \cup {[t EXCEPT !.pc = "posted"]}
             ELSE g_threads \ {t}
    /\ UNCHANGED guiHistVars
    /\ UNCHANGED <<NotGui, guiMsgVars, g_running, g_interface, g_connecting,
                   g_auto_reconnect, g_open, g_timers>>

\* connect_thread's finally clause: self._connecting = False, in the thread
GuiThreadFinally ==
    /\ GuiOn
    /\ \E t \in g_threads :
        /\ t.kind = "connect"
        /\ t.pc = "posted"
        /\ g_threads' = g_threads \ {t}
    /\ g_connecting' = FALSE
    /\ UNCHANGED guiHistVars
    /\ UNCHANGED <<NotGui, guiMsgVars, g_running, g_interface, g_auto_reconnect, g_open,
                   g_after, g_timers>>

\* Tk runs _on_connect_success(interface, ...)
GuiOnConnectSuccess ==
    /\ GuiOn
    /\ \E h \in g_after.connect_ok, probe_raises \in BOOLEAN :
          Apply(OnConnectSuccess([Main EXCEPT !.after.connect_ok = @ \ {h}], h, probe_raises))
    /\ g_failures' = 0
    /\ UNCHANGED g_request
    /\ UNCHANGED <<NotGui, guiMsgVars>>

\* Tk runs _on_connect_failure(msg)
GuiOnConnectFailure ==
    /\ GuiOn
    /\ g_after.connect_fail > 0
    /\ Apply(OnConnectFailure([Main EXCEPT !.after.connect_fail = @ - 1]))
    /\ UNCHANGED guiHistVars
    /\ UNCHANGED <<NotGui, guiMsgVars>>

\* Tk runs _on_reconnect_success(interface, ...)
GuiOnReconnectSuccess ==
    /\ GuiOn
    /\ \E h \in g_after.reconnect_ok, probe_raises \in BOOLEAN :
          Apply(OnConnectSuccess([Main EXCEPT !.after.reconnect_ok = @ \ {h}], h, probe_raises))
    /\ g_failures' = 0
    /\ UNCHANGED g_request
    /\ UNCHANGED <<NotGui, guiMsgVars>>

\* Tk runs the callback reconnect_thread posted, lambda:
\* self._on_reconnect_failure(str(e)). The lambda reads e of the thread's
\* except clause when it is run: e_bound tells whether the thread is still
\* inside that clause; once the thread has left it e is unbound, the callback
\* raises NameError and _on_reconnect_failure is not entered
GuiOnReconnectFailure ==
    /\ GuiOn
    /\ g_after.reconnect_fail > 0
    /\ \E e_bound \in BOOLEAN :
          Apply(IF e_bound
                THEN OnReconnectFailure([Main EXCEPT !.after.reconnect_fail = @ - 1])
                ELSE [Main EXCEPT !.after.reconnect_fail = @ - 1])
    /\ g_failures' = IF g_failures < FailureLimit THEN g_failures + 1 ELSE g_failures
    /\ UNCHANGED g_request
    /\ UNCHANGED <<NotGui, guiMsgVars>>

\* the 2 s or 5 s timer fires: Tk runs _do_reconnect
GuiDoReconnect ==
    /\ GuiOn
    /\ g_after.do_reconnect > 0
    /\ Apply(DoReconnect([Main EXCEPT !.after.do_reconnect = @ - 1]))
    /\ UNCHANGED guiHistVars
    /\ UNCHANGED <<NotGui, guiMsgVars>>

\* the 10 s timer fires: Tk runs _check_connection_health
GuiHealthTick ==
    /\ GuiOn
    /\ \E tracked \in BOOLEAN, probe_raises \in BOOLEAN :
        /\ IF tracked THEN g_timers.health_tracked ELSE g_timers.health_orphans > 0
        /\ Apply(CheckConnectionHealth(
                    IF tracked
                    THEN [Main EXCEPT !.timers.health_tracked = FALSE]
                    ELSE [Main EXCEPT !.timers.health_orphans = @ - 1],
                    probe_raises))
    /\ UNCHANGED guiHistVars
    /\ UNCHANGED <<NotGui, guiMsgVars>>

\* the refresh timer fires: Tk runs _on_refresh_timer
GuiRefreshTick ==
    /\ GuiOn
    /\ g_timers.refresh
    /\ Apply(IF g_running THEN StartRefreshTimer(Main) ELSE StopRefreshTimer(Main))
    /\ UNCHANGED guiHistVars
    /\ UNCHANGED <<NotGui, guiMsgVars>>

\* a session timer fires: Tk runs _update_session_timer
GuiSessionTick ==
    /\ GuiOn
    /\ \E tracked \in BOOLEAN :
        /\ IF tracked THEN g_timers.session_tracked ELSE g_timers.session_orphans > 0
        /\ Apply(UpdateSessionTimer(
                    IF tracked
                    THEN [Main EXCEPT !.timers.session_tracked = FALSE]
                    ELSE [Main EXCEPT !.timers.session_orphans = @ - 1]))
    /\ UNCHANGED guiHistVars
    /\ UNCHANGED <<NotGui, guiMsgVars>>

-----------------------------------------------------------------------------
(* The GUI: _on_receive and _process_ai_query *)

\* answers _query_ollama can return to _process_ai_query
GuiAnswers == {AnswerTime, Rep(97, LongLen)}

\* packets published to _on_receive
GuiPackets ==
    { Packet(TRUE, "POSITION_APP", <<>>, SenderAbc, 0),
      Packet(TRUE, "TEXT_MESSAGE_APP", TextBlank, SenderAbc, 1),
      Packet(TRUE, "TEXT_MESSAGE_APP", TextHello, SenderAbc, 0),
      Packet(TRUE, "TEXT_MESSAGE_APP", TextPrefixBlank, SenderOther, 1),
      Packet(TRUE, "TEXT_MESSAGE_APP", TextQuery, <<Missing>>, Missing),
      Packet(TRUE, "TEXT_MESSAGE_APP", TextQueryLower, SenderOther, 1) }

\* what _on_receive makes of each packet (ai_prefix is "/AI")
GuiRoute == [pkt \in GuiPackets |-> Route(pkt, AI_PREFIX)]

\* the reply _process_ai_query composes for each sender and answer
GuiReplyTo ==
    [from_id \in {GuiRoute[pkt].from_id : pkt \in GuiPackets}, answer \in GuiAnswers |->
        GuiReply(from_id, answer)]

\* a variant that compares the prefix letter for letter
Dispatches_same_case(pkt) ==
    g_ai_enabled /\ GuiRoute[pkt].stage = "query" /\ IsPrefixOf(AI_PREFIX, GuiRoute[pkt].text)

\* a variant that hands a message to the backend only when no query is in flight
Dispatches_when_idle(pkt) ==
    g_ai_enabled /\ GuiRoute[pkt].stage = "query" /\ g_workers = {}

\* whether _on_receive starts a _process_ai_query thread for the packet
Dispatches(pkt) == g_ai_enabled /\ GuiRoute[pkt].stage = "query"

\* _on_receive(packet, interface), called by pubsub on the library's thread
\* for a packet of any interface that is open
GuiOnReceive ==
    /\ GuiOn
    /\ Len(g_packets) < MaxPackets
    /\ \E interface \in g_open, pkt \in GuiPackets :
        LET r == GuiRoute[pkt]
        IN /\ g_packets' = Append(g_packets, [packet |-> pkt, interface |-> interface])
           /\ g_messages_received' =
                 IF r.stage = "ignored" THEN g_messages_received
                 ELSE g_messages_received + 1
           /\ g_workers' =
                 IF Dispatches(pkt)
                 THEN g_workers \cup
                         {[id |-> Len(g_packets) + 1, question |-> r.question,
                           from_id |-> r.from_id, channel |-> r.channel,
                           interface |-> interface]}
                 ELSE g_workers
    /\ UNCHANGED guiHistVars
    /\ UNCHANGED <<NotGui, guiMainVars, g_messages_sent, g_sends>>

\* a variant that counts a send whether it raised or not
CountSent_always(sent, raised) == sent + 1

\* lines 991-998: messages_sent += 1 follows sendText inside the try block
CountSent(sent, raised) == IF raised THEN sent ELSE sent + 1

\* lines 993-994 and 1000-1001: the line the worker adds to the replies log
ReplyLog(raised) == IF raised THEN "FAILED to" ELSE "AI to"

\* _process_ai_query: _query_ollama returns, the reply is composed and handed
\* to the sendText of the interface the packet came from
GuiProcessAiQuery ==
    /\ GuiOn
    /\ \E w \in g_workers, answer \in GuiAnswers, send_raises \in BOOLEAN :
        /\ g_workers' = g_workers \ {w}
        /\ g_sends' = g_sends \cup
              {[id |-> w.id, text |-> GuiReplyTo[w.from_id, answer], channel |-> w.channel,
                destinationId |-> Missing, interface |-> w.interface,
                raised |-> send_raises, log |-> ReplyLog(send_raises)]}
        /\ g_messages_sent' = CountSent(g_messages_sent, send_raises)
        /\ g_messages_received' = CountSent(g_messages_received, send_raises)
    /\ UNCHANGED guiHistVars
    /\ UNCHANGED <<NotGui, guiMainVars, g_packets>>

GuiNext ==
    \/ GuiStartService
    \/ GuiStopService
    \/ GuiSetAutoReconnect
    \/ GuiThreadCreate
    \/ GuiThreadPost
    \/ GuiThreadFinally
    \/ GuiOnConnectSuccess
    \/ GuiOnConnectFailure
    \/ GuiOnReconnectSuccess
    \/ GuiOnReconnectFailure
    \/ GuiDoReconnect
    \/ GuiHealthTick
    \/ GuiRefreshTick
    \/ GuiSessionTick

SpecGui == GuiInit /\ [][GuiNext]_vars

RetryInit ==
    /\ g_on = "retries"
    /\ g_auto_reconnect \in BOOLEAN
    /\ g_ai_enabled = TRUE
    /\ GuiConstructed
    /\ EncOff
    /\ QOff
    /\ BotOff

SpecGuiRetry == RetryInit /\ [][GuiNext]_vars

\* _create_interface() returns an interface
GuiThreadCreated == GuiThreadCreate /\ g_open' # g_open

\* a success callback whose first health probe does not raise
GuiConnectedNow ==
    (GuiOnConnectSuccess \/ GuiOnReconnectSuccess) /\ g_running' /\ g_interface' # 0

\* Tk's main loop runs every callback and timer it holds, the threads run on,
\* and the transport becomes openable again: of the attempts made over and
\* over, one opens the interface and finds it alive
GuiLiveness ==
    /\ WF_vars(GuiThreadCreate)
    /\ WF_vars(GuiThreadPost)
    /\ WF_vars(GuiThreadFinally)
    /\ WF_vars(GuiOnConnectSuccess)
    /\ WF_vars(GuiOnConnectFailure)
    /\ WF_vars(GuiOnReconnectSuccess)
    /\ WF_vars(GuiOnReconnectFailure)
    /\ WF_vars(GuiDoReconnect)
    /\ SF_vars(GuiThreadCreated)
    /\ SF_vars(GuiConnectedNow)

SpecGuiLive == RetryInit /\ [][GuiNext]_vars /\ GuiLiveness

MsgInit ==
    /\ g_on = "messages"
    /\ g_auto_reconnect \in BOOLEAN
    /\ g_ai_enabled \in BOOLEAN
    /\ GuiConstructed
    /\ EncOff
    /\ QOff
    /\ BotOff

MsgNext ==
    \/ GuiStartService
    \/ GuiStopService
    \/ GuiThreadCreate
    \/ GuiThreadPost
    \/ GuiThreadFinally
    \/ GuiOnConnectSuccess
    \/ GuiOnConnectFailure
    \/ GuiOnReconnectSuccess
    \/ GuiOnReconnectFailure
    \/ GuiDoReconnect
    \/ GuiHealthTick
    \/ GuiRefreshTick
    \/ GuiSessionTick
    \/ GuiOnReceive
    \/ GuiProcessAiQuery

SpecGuiMsg == MsgInit /\ [][MsgNext]_vars

-----------------------------------------------------------------------------
(* The message handling of both programs: a run is a run of the bot or a   *)
(* run of the GUI                                                          *)

RouterInit == BotInit \/ MsgInit

RouterNext == BotNext \/ MsgNext

SpecRouter == RouterInit /\ [][RouterNext]_vars

-----------------------------------------------------------------------------
(* Properties of the reply composition *)

\* the part of reply r that follows the mention of sender s
AnswerPart(r, s) == SubSeq(r, Len(prefix(s)) + 1, Len(r))

EndsWithSuffix(t) ==
    Len(t) >= Len(suffix) /\ SubSeq(t, Len(t) - Len(suffix) + 1, Len(t)) = suffix

WithoutSuffix(t) == SubSeq(t, 1, Len(t) - Len(suffix))

\* r is the mention of s, then a strict prefix of answer a in whole
\* characters, then "...", and fits in limit bytes
TruncatedShape(r, s, a, limit) ==
    /\ IsPrefixOf(prefix(s), r)
    /\ EndsWithSuffix(AnswerPart(r, s))
    /\ IsPrefixOf(WithoutSuffix(AnswerPart(r, s)), a)
    /\ Len(WithoutSuffix(AnswerPart(r, s))) < Len(a)
    /\ ByteLen(r) <= limit

\* C2: the text the bot's on_receive passes to sendText is at most 200 UTF-8
\* bytes long and is valid text made of whole characters: the mention, then
\* either the answer or a prefix of the answer's characters followed by "..."
C2_BotReplyFits ==
    e_bot # NoText =>
        /\ ByteLen(e_bot) <= max_bytes
        /\ DecodeIgnore(Utf8Encode(e_bot)) = e_bot
        /\ IsPrefixOf(prefix(e_sender), e_bot)
        /\ \/ AnswerPart(e_bot, e_sender) = e_answer
           \/ /\ EndsWithSuffix(AnswerPart(e_bot, e_sender))
              /\ IsPrefixOf(WithoutSuffix(AnswerPart(e_bot, e_sender)), e_answer)

\* the cut at available_bytes fell inside a multi-byte character, whose
\* leading bytes were dropped
C2_Witness ==
    /\ e_bot # NoText
    /\ ByteLen(e_answer) > available_bytes(e_sender)
    /\ ByteLen(truncated(e_sender, e_answer)) < available_bytes(e_sender)
    /\ ByteLen(e_bot) < max_bytes

\* C3: the text the GUI's _process_ai_query passes to sendText is at most
\* MAX_MESSAGE_BYTES UTF-8 bytes long
C3_GuiReplyFits ==
    e_gui # NoText => ByteLen(e_gui) <= MAX_MESSAGE_BYTES

\* C4: when "@s a" is at most 200 bytes, both variants send exactly "@s a"
C4_ExactWhenFits ==
    (e_pc = "done" /\ ByteLen(Composed(e_sender, e_answer)) <= MAX_MESSAGE_BYTES) =>
        /\ e_bot = Composed(e_sender, e_answer)
        /\ e_gui = Composed(e_sender, e_answer)

\* C5: when "@s a" exceeds 200 bytes, both variants send the mention, a strict
\* prefix of the answer in whole characters and "...", within the limit
C5_TruncatedWhenLong ==
    (e_pc = "done" /\ ByteLen(Composed(e_sender, e_answer)) > MAX_MESSAGE_BYTES) =>
        /\ TruncatedShape(e_bot, e_sender, e_answer, max_bytes)
        /\ TruncatedShape(e_gui, e_sender, e_answer, MAX_MESSAGE_BYTES)

-----------------------------------------------------------------------------
(* Properties of the query client *)

\* transport-level and timeout failures
Transient(o) == o.kind \in {"ConnectionError", "ConnectTimeout", "ReadTimeout"}

AllTransient(h) == \A i \in 1..Len(h) : Transient(h[i])

NoSuccess(h) == \A i \in 1..Len(h) : h[i].kind # "ok"

Front(h) == SubSeq(h, 1, Len(h) - 1)
Last(h) == h[Len(h)]

QueryEnded == q_pc \in {"done", "raised"}

\* "ok"
StrOk == <<111, 107>>

\* C6: against a backend whose first k < n requests fail with a transient
\* error and whose next request succeeds, both variants return the success
\* text after exactly k+1 requests: the query does not stop before its n-th
\* request while requests fail, and it returns at the first success
C6_RetryThenSuccess ==
    /\ (q_pc # "off" /\ AllTransient(q_hist) /\ Len(q_hist) < q_retries) => ~QueryEnded
    /\ (q_hist # <<>> /\ Last(q_hist).kind = "ok" /\ AllTransient(Front(q_hist))) =>
        /\ q_pc = "done"
        /\ Len(q_hist) <= q_retries
        /\ q_sleeps = Len(q_hist) - 1
        /\ Last(q_hist).body = AnswerTime => q_result = AnswerTime
        /\ Last(q_hist).body = BodyPadded => q_result = StrOk

\* two transient failures, then the third and last request succeeds
C6_Witness ==
    /\ q_variant = "gui"
    /\ q_retries = 3
    /\ Len(q_hist) = 3
    /\ q_hist[1].kind = "ConnectionError"
    /\ q_hist[2].kind = "ReadTimeout"
    /\ q_hist[3].kind = "ok"
    /\ q_result = AnswerTime
    /\ q_pc = "done"

\* C7 as stated: a query whose every request fails returns a non-empty
\* diagnostic, never raises, and has issued exactly maxAttempts requests
C7_AllFailExactlyMax ==
    /\ q_pc # "raised"
    /\ (q_pc = "done" /\ NoSuccess(q_hist)) =>
        /\ q_result # NoText
        /\ Len(q_result) > 0
        /\ Len(q_hist) = q_retries

\* C7 amended: a query whose every request fails returns a non-empty
\* diagnostic and never raises; it has issued exactly maxAttempts requests,
\* except that the GUI's _query_ollama ends at the first HTTP 404
C7_AllFailDiagnostic ==
    /\ q_pc # "raised"
    /\ (q_pc = "done" /\ NoSuccess(q_hist)) =>
        /\ q_result # NoText
        /\ Len(q_result) > 0
        /\ \/ Len(q_hist) = q_retries
           \/ /\ q_variant = "gui"
              /\ q_hist # <<>>
              /\ Last(q_hist).kind = "HTTPError"
              /\ Last(q_hist).status = NotFoundStatus

\* three failures of three different classes exhaust three attempts
C7_Witness ==
    /\ q_pc = "done"
    /\ q_retries = 3
    /\ Len(q_hist) = 3
    /\ q_hist[1].kind = "ConnectionError"
    /\ q_hist[2].kind = "HTTPError"
    /\ q_hist[3].kind = "Other"
    /\ q_hist[3].body = <<>>

\* C8: in the GUI an HTTP 404 on attempt i ends the query at once with the
\* model-not-found string: i requests in all, i-1 sleeps, none after the 404
C8_NotFoundIsTerminal ==
    q_variant = "gui" =>
        \A i \in 1..Len(q_hist) :
            (q_hist[i].kind = "HTTPError" /\ q_hist[i].status = NotFoundStatus) =>
                /\ i = Len(q_hist)
                /\ q_pc = "done"
                /\ q_result = StrModelNotFound
                /\ q_sleeps = i - 1

\* the 404 arrives on the third attempt
C8_Witness ==
    /\ q_variant = "gui"
    /\ Len(q_hist) = 3
    /\ q_hist[3].kind = "HTTPError"
    /\ q_hist[3].status = NotFoundStatus
    /\ q_pc = "done"

\* C9: in every variant an HTTP error signalling an unknown model (404) or a
\* malformed request (400) ends the query at that request and is never retried
C9_TerminalNeverRetried ==
    \A i \in 1..Len(q_hist) :
        (q_hist[i].kind = "HTTPError" /\ q_hist[i].status \in {NotFoundStatus, 400}) =>
            /\ i = Len(q_hist)
            /\ q_pc = "done"

-----------------------------------------------------------------------------
(* Properties of the bot's main loop *)

\* C10: started without an interface, max_retries consecutive failures of
\* connect_interface end the loop in the failed state after exactly 3 connect
\* attempts, RECONNECT_DELAY is waited between attempts only, no connect
\* attempt follows, and a successful connect resets retry_count to 0
C10_ConnectGivesUp ==
    /\ [](b_pc = "failed" =>
            /\ b_connects = max_retries
            /\ b_retry_count = max_retries
            /\ b_delays = max_retries - 1
            /\ b_interface = 0)
    /\ [](b_pc = "connect" =>
            /\ b_retry_count < max_retries
            /\ b_connects = b_retry_count
            /\ b_delays = b_retry_count)
    /\ [](b_pc = "delay" =>
            /\ b_retry_count < max_retries
            /\ b_connects = b_retry_count
            /\ b_delays = b_retry_count - 1)
    /\ [](b_interface # 0 => b_retry_count = 0)
    /\ [][b_pc = "failed" => UNCHANGED <<b_pc, b_connects, b_delays, b_interface>>]_vars

\* three failed connects, two delays between them, and the loop has ended
C10_Witness ==
    /\ b_pc = "failed"
    /\ b_connects = 3
    /\ b_delays = 2

-----------------------------------------------------------------------------
(* Properties of the GUI's message handling *)

\* C1: in the GUI no AI reply is sent while the service is not running:
\* whatever the interleaving of inbound messages, Start and Stop requests,
\* health-probe failures and reconnects, every step in which _on_receive
\* starts a _process_ai_query worker and every step in which a worker calls
\* sendText is taken with self.running true.
C1_NoSendUnlessConnected ==
    [][/\ (g_workers' \ g_workers # {} => g_running)
       /\ (g_sends' # g_sends => g_running)]_vars

-----------------------------------------------------------------------------
(* Properties of the GUI's service lifecycle *)

\* C11: in the GUI the consecutive failed automatic reconnect attempts after
\* a connection loss are bounded by 3 (the limit the bot's main uses): once
\* three attempts have failed in a row, no _do_reconnect timer is pending and
\* no reconnect thread is running, until the user starts the service again.
C11_ReconnectAttemptsBounded ==
    g_failures >= max_retries =>
        /\ g_after.do_reconnect = 0
        /\ \A t \in g_threads : t.kind # "reconnect"

\* every timer stop_service cancels is cancelled
TimersCancelled(timers) ==
    /\ ~timers.refresh
    /\ ~timers.session_tracked
    /\ ~timers.session_start
    /\ ~timers.health_tracked

\* C12: a disconnect always lands in Disconnected: every stop_service call
\* made while the GUI service is running (and no connection attempt is in
\* progress) ends with running false, the interface unset and the refresh,
\* session and health-check timers cancelled, also when interface.close()
\* raises.
C12_StopLandsDisconnected ==
    [][(GuiStopService /\ g_running /\ ~g_connecting) =>
          (~g_running' /\ g_interface' = 0 /\ TimersCancelled(g_timers'))]_vars

\* C13: once the user has pressed Stop, also while a 2 s or 5 s reconnect
\* timer is pending or a reconnect thread is in flight, the pending reconnect
\* is cancelled: as long as Start is not requested again, _do_reconnect starts
\* no reconnect thread and no _on_reconnect_success makes the service running.
C13_StopCancelsReconnect ==
    [][(g_request = "stop" /\ g_request' = "stop") =>
          /\ \A t \in g_threads' \ g_threads : ~(t.kind = "reconnect" /\ t.pc = "creating")
          /\ (~g_running /\ g_running') => g_after'.reconnect_ok = g_after.reconnect_ok]_vars

-----------------------------------------------------------------------------
(* Properties of the message routing of both programs *)

\* the packet is a text message
IsText(pkt) == pkt.decoded /\ pkt.portnum = "TEXT_MESSAGE_APP"

\* the text of the packet with surrounding whitespace removed
Trimmed(pkt) == Strip(pkt.text)

\* the trimmed text starts with the prefix, letter case ignored
StartsWithPrefix(pkt) ==
    LET t == Trimmed(pkt)
    IN /\ Len(t) >= Len(AI_PREFIX)
       /\ \A i \in 1..Len(AI_PREFIX) : Upper(t)[i] = Upper(AI_PREFIX)[i]

\* what follows the prefix, trimmed
Remainder(pkt) == Strip(SubSeq(Trimmed(pkt), Len(AI_PREFIX) + 1, Len(Trimmed(pkt))))

\* the packets the bot / the GUI has been handed, by position
BotHandled == 1..Len(b_handled)
GuiHandled == 1..Len(g_packets)

\* the bot is querying for packet i, or has called sendText for it
BotAnswering(i) ==
    \/ i = Len(b_handled) /\ b_h.pc = "query"
    \/ \E k \in 1..Len(b_sent) : b_sent[k].id = i

\* the GUI has a worker for packet i, or has called sendText for it
GuiAnswering(i) ==
    \/ \E w \in g_workers : w.id = i
    \/ \E s \in g_sends : s.id = i

\* the packets that reach the log line of on_receive / _on_receive
BotLogged == {i \in BotHandled : IsText(b_handled[i]) /\ Trimmed(b_handled[i]) # <<>>}
GuiLogged == {i \in GuiHandled : IsText(g_packets[i].packet)
                                    /\ Trimmed(g_packets[i].packet) # <<>>}

\* C14: an inbound text message whose trimmed text does not start with the
\* prefix (letter case ignored) causes no backend query and no sendText call,
\* in the bot and in the GUI, whatever the state of the session; it is only
\* logged (bot) or counted (GUI).
C14_NonPrefixNeverAnswered ==
    /\ \A i \in BotHandled :
          ~StartsWithPrefix(b_handled[i]) => ~BotAnswering(i)
    /\ \A i \in GuiHandled :
          ~StartsWithPrefix(g_packets[i].packet) => ~GuiAnswering(i)
    /\ b_queries <= Cardinality({i \in BotHandled : StartsWithPrefix(b_handled[i])})
    /\ b_log = Cardinality(BotLogged)
    /\ g_messages_received
          = Cardinality(GuiLogged) + Cardinality({s \in g_sends : ~s.raised})

\* the GUI has counted a text message without the prefix and has answered
\* the query that followed it
C14_Witness ==
    /\ Len(g_packets) = 2
    /\ 1 \in GuiLogged
    /\ ~StartsWithPrefix(g_packets[1].packet)
    /\ \E s \in g_sends : s.id = 2
    /\ g_messages_received >= 1

\* every character of s is whitespace (s is empty after trimming)
Blank(s) == \A i \in 1..Len(s) : IsSpace(s[i])

\* s is the prefix, in any letter case, with nothing but whitespace around it
BarePrefix(s) ==
    \E a \in 0..Len(s) :
        /\ Len(s) >= a + Len(AI_PREFIX)
        /\ Blank(SubSeq(s, 1, a))
        /\ Upper(SubSeq(s, a + 1, a + Len(AI_PREFIX))) = Upper(AI_PREFIX)
        /\ Blank(SubSeq(s, a + Len(AI_PREFIX) + 1, Len(s)))

\* C15: an inbound message that is empty after trimming, or that is the
\* prefix followed only by whitespace, causes no backend query, no worker
\* dispatch and no sendText call, in the bot and in the GUI.
C15_BlankNeverAnswered ==
    /\ \A i \in BotHandled :
          (Blank(b_handled[i].text) \/ BarePrefix(b_handled[i].text)) => ~BotAnswering(i)
    /\ \A i \in GuiHandled :
          (Blank(g_packets[i].packet.text) \/ BarePrefix(g_packets[i].packet.text))
              => ~GuiAnswering(i)

\* the GUI, AI enabled, has handled a whitespace-only text message and then a
\* prefix followed by blanks, and has started no worker
C15_Witness ==
    /\ g_ai_enabled
    /\ Len(g_packets) = 2
    /\ IsText(g_packets[1].packet) /\ g_packets[1].packet.text # <<>>
    /\ Blank(g_packets[1].packet.text)
    /\ IsText(g_packets[2].packet) /\ BarePrefix(g_packets[2].packet.text)
    /\ g_workers = {}
    /\ g_sends = {}

\* a text message whose trimmed text starts with the prefix, in any letter
\* case, and has a non-empty remainder
Matched(pkt) == IsText(pkt) /\ StartsWithPrefix(pkt) /\ Remainder(pkt) # <<>>

\* sendText calls made for packet i
BotSendsFor(i) == Cardinality({k \in 1..Len(b_sent) : b_sent[k].id = i})
GuiSendsFor(i) == Cardinality({s \in g_sends : s.id = i})

\* query-client invocations running for packet i
BotQueriesFor(i) == IF i = Len(b_handled) /\ b_h.pc = "query" THEN 1 ELSE 0
GuiQueriesFor(i) == Cardinality({w \in g_workers : w.id = i})

\* the bot: one query per matched message, then one sendText; never two
BotZeroOrOneReply ==
    /\ \A i \in BotHandled :
          /\ BotSendsFor(i) <= 1
          /\ Matched(b_handled[i]) => BotQueriesFor(i) + BotSendsFor(i) = 1
    /\ b_queries = Cardinality({i \in BotHandled : Matched(b_handled[i])})

\* the GUI: never two sendText calls for one message
GuiAtMostOneReply ==
    \A i \in GuiHandled : GuiSendsFor(i) <= 1 /\ GuiQueriesFor(i) + GuiSendsFor(i) <= 1

\* C16 as stated: every inbound event yields zero or one outbound reply: a
\* text message whose trimmed text starts with the prefix in any letter case
\* and has a non-empty remainder triggers exactly one query-client invocation
\* and exactly one sendText attempt (the query is running, or the one sendText
\* call has been made), and no inbound message triggers more than one
\* sendText attempt; in the bot and in the GUI.
C16_ExactlyOneReply ==
    /\ BotZeroOrOneReply
    /\ GuiAtMostOneReply
    /\ \A i \in GuiHandled :
          Matched(g_packets[i].packet) => GuiQueriesFor(i) + GuiSendsFor(i) = 1

\* C16 amended: as stated for the bot; in the GUI a matched message triggers
\* exactly one query and one sendText attempt when "Enable AI responses"
\* (ai_enabled) is on, and none when it is off.
C16_ExactlyOneReplyWhenEnabled ==
    /\ BotZeroOrOneReply
    /\ GuiAtMostOneReply
    /\ \A i \in GuiHandled :
          Matched(g_packets[i].packet) =>
              GuiQueriesFor(i) + GuiSendsFor(i) = IF g_ai_enabled THEN 1 ELSE 0

\* the GUI, AI enabled, has handled two matched messages, one of them with
\* the prefix in lower case; one has been answered and one is being queried
C16_Witness ==
    /\ g_ai_enabled
    /\ Len(g_packets) = 2
    /\ Matched(g_packets[1].packet) /\ Matched(g_packets[2].packet)
    /\ \E i \in GuiHandled : ~IsPrefixOf(AI_PREFIX, Trimmed(g_packets[i].packet))
    /\ \E i \in GuiHandled : GuiSendsFor(i) = 1
    /\ \E i \in GuiHandled : GuiQueriesFor(i) = 1

\* the channel a reply to the packet goes to: the packet's, 0 when it has none
ReplyChannel(pkt) == IF pkt.channel = Missing THEN 0 ELSE pkt.channel

\* the mention a reply to the packet starts with: '@', the sender's id
\* ('unknown' when the packet names none) and a space
Mention(pkt) ==
    <<At>> \o (IF pkt.fromId = <<Missing>> THEN StrUnknown ELSE pkt.fromId) \o <<Space>>

\* the sendText call is a reply to the packet
RepliesTo(call, pkt) ==
    /\ call.channel = ReplyChannel(pkt)
    /\ Len(call.text) >= Len(Mention(pkt))
    /\ SubSeq(call.text, 1, Len(Mention(pkt))) = Mention(pkt)
    /\ call.destinationId = Missing

\* C17: each AI reply is sent on the channelIndex of the inbound message that
\* triggered it (0 when the packet carries no channel) and mentions that
\* message's sender, as a broadcast with no destinationId, in the bot and in
\* the GUI; with several queries in flight a worker holds the channel and the
\* sender of its own message, so no reply goes to another query's channel or
\* sender.
C17_ReplyFollowsItsMessage ==
    /\ \A k \in 1..Len(b_sent) : RepliesTo(b_sent[k], b_handled[b_sent[k].id])
    /\ \A s \in g_sends : RepliesTo(s, g_packets[s.id].packet)
    /\ \A w \in g_workers :
          /\ w.channel = ReplyChannel(g_packets[w.id].packet)
          /\ <<At>> \o w.from_id \o <<Space>> = Mention(g_packets[w.id].packet)

\* two queries of different senders on different channels were in flight in
\* the GUI; the second message has been answered, the first is still queried
C17_Witness ==
    /\ Len(g_packets) = 2
    /\ ReplyChannel(g_packets[1].packet) # ReplyChannel(g_packets[2].packet)
    /\ Mention(g_packets[1].packet) # Mention(g_packets[2].packet)
    /\ g_packets[1].packet.channel = Missing
    /\ \E w \in g_workers : w.id = 1
    /\ \E s \in g_sends : s.id = 2

\* the failed sends of the GUI's workers
GuiFailedSends == {s \in g_sends : s.raised}

\* C18: when sendText raises for an AI reply the failure is written to the log
\* and stays inside the handler or worker: the bot's handler returns and a
\* bot that has not been stopped takes the next packet, sendText is called once per queried message whether it
\* raised or not (no retry, no other delivery path), and the GUI counts in
\* messages_sent only the sends that did not raise.
C18_SendFailureLoggedNotRetried ==
    /\ \A k \in 1..Len(b_sent) :
          /\ b_sent[k].raised => b_sent[k].log = "Send failed"
          /\ \A j \in 1..Len(b_sent) : b_sent[j].id = b_sent[k].id => j = k
    /\ Len(b_sent) = b_queries - (IF b_h.pc = "query" THEN 1 ELSE 0)
    /\ (b_sent # <<>> /\ b_sent[Len(b_sent)].raised /\ b_h.pc = "idle"
            /\ BotRunning /\ b_queue # <<>>) => ENABLED BotOnReceive
    /\ \A s \in GuiFailedSends : s.log = "FAILED to"
    /\ \A s, t \in g_sends : s.id = t.id => s = t
    /\ \A s \in g_sends : \A w \in g_workers : w.id # s.id
    /\ g_messages_sent = Cardinality(g_sends \ GuiFailedSends)

\* in the GUI the send of the first message raised and the send of the second
\* did not: one reply is counted and no worker is left
C18_Witness ==
    /\ \E s \in GuiFailedSends : s.id = 1
    /\ \E s \in g_sends \ GuiFailedSends : s.id = 2
    /\ g_workers = {}
    /\ g_messages_sent = 1

----------------------------------------------------------------------------
(* Properties of the concurrency of ingestion and backend queries *)

\* a query of the GUI is in flight
GuiQueryInFlight == g_workers # {}

\* a health probe is scheduled
HealthProbeDue == g_timers.health_tracked \/ g_timers.health_orphans > 0

\* C19: in the GUI ingestion never waits for the backend: while the query of
\* a matched message is in flight a later inbound message is still taken by
\* _on_receive, and when it matches (AI on) it has a worker of its own, so
\* several queries are in flight at once; the health probe still fires.
C19_IngestionNeverWaits ==
    /\ (GuiQueryInFlight /\ g_open # {} /\ Len(g_packets) < MaxPackets)
            => ENABLED GuiOnReceive
    /\ (GuiQueryInFlight /\ HealthProbeDue) => ENABLED GuiHealthTick
    /\ \A i \in 1..Len(g_packets) :
          (g_ai_enabled /\ GuiRoute[g_packets[i].packet].stage = "query")
              => \/ \E w \in g_workers : w.id = i
                 \/ \E s \in g_sends : s.id = i

\* two queries are in flight at once and a health probe is due
C19_Witness ==
    /\ Cardinality(g_workers) = 2
    /\ HealthProbeDue

\* C20: in the bot the ingestion path never blocks on network I/O: while the
\* backend query of a matched message is in flight, a packet that has arrived
\* since is taken by on_receive and prefix-checked without waiting for the
\* query to finish.
C20_BotIngestionNeverBlocks ==
    (BotRunning /\ b_h.pc = "query" /\ b_queue # <<>>) => ENABLED BotOnReceive

----------------------------------------------------------------------------
(* Properties of the GUI's health monitor and reconnect cycle *)

\* the service is Connected: running with an interface
Connected == g_running /\ g_interface # 0

\* health-check callbacks Tk holds
HealthPending == (IF g_timers.health_tracked THEN 1 ELSE 0) + g_timers.health_orphans

\* reconnect cycles under way: a _do_reconnect timer, a reconnect thread or
\* the callback it posted
ReconnectCycles ==
    g_after.do_reconnect + Cardinality({t \in g_threads : t.kind = "reconnect"})
        + Cardinality(g_after.reconnect_ok) + g_after.reconnect_fail

\* C21: when the health probe raises while the service is Connected the loss
\* is handled once: the interface is dropped, one _do_reconnect is scheduled
\* when auto_reconnect is on and none otherwise, and the probe is not
\* scheduled again; no step of the program, a user's Start or Stop and a
\* failed send included, starts a second reconnect cycle for the loss.
C21_LossHandledOnce ==
    [][/\ (GuiHealthTick /\ Connected /\ ~g_running') =>
              /\ g_interface' = 0
              /\ HealthPending' = HealthPending - 1
              /\ g_after'.do_reconnect =
                    g_after.do_reconnect + (IF g_auto_reconnect THEN 1 ELSE 0)
       /\ ReconnectCycles' <= ReconnectCycles + 1
       /\ ReconnectCycles' > ReconnectCycles =>
              /\ GuiHealthTick \/ GuiOnConnectSuccess
              /\ g_auto_reconnect /\ ~g_running' /\ g_interface' = 0]_vars

\* a reply's send failed, a loss was handled with auto_reconnect on and the
\* user pressed Start since: one _do_reconnect is scheduled next to the user's
\* connect thread
C21_Witness ==
    /\ GuiFailedSends # {}
    /\ ~g_running /\ g_interface = 0 /\ g_auto_reconnect
    /\ g_after.do_reconnect = 1
    /\ HealthPending = 0
    /\ \E t \in g_threads : t.kind = "connect"

\* C22: the health monitor never runs concurrently with itself: whatever
\* connect successes, reconnect successes, stops and probe ticks have happened,
\* Tk holds at most one health-check callback (callbacks run one at a time on
\* the main thread, so one that executes is no longer pending).
C22_OneHealthCheck == HealthPending <= 1

\* a reconnect succeeded while the service was Connected already: two
\* interfaces are open and one health check is pending
C22_Witness ==
    /\ Connected
    /\ Cardinality(g_open) = 2
    /\ HealthPending = 1

\* C23: the health probe is active exactly while the service is Connected:
\* _check_connection_health reads the interface only when the service is
\* running with an interface, and whenever the service is running with an
\* interface, after a reconnect and after a stop request that failed as well,
\* a health check is armed.
C23_ProbeArmedWhileConnected == Connected => HealthPending >= 1

----------------------------------------------------------------------------
(* Properties of the GUI's workers and the transport *)

\* C24: no query worker uses a stale transport handle: when the interface a
\* worker captured at dispatch has been closed since, by stop_service or by
\* _handle_disconnect, the worker does not call sendText on it; every sendText
\* of a worker goes to an interface that is open.
C24_NoStaleHandle ==
    [][\A s \in g_sends' \ g_sends : s.interface \in g_open]_vars

\* C25: a send failure triggers connection-loss handling: when the sendText
\* of an AI reply raises on the interface of a Connected service, the service
\* leaves Connected in that step (running false, interface dropped) and, as
\* after a failed health probe, a _do_reconnect is scheduled when
\* auto_reconnect is on.
C25_SendFailureHandledAsLoss ==
    [][\A s \in g_sends' \ g_sends :
          (s.raised /\ Connected /\ s.interface = g_interface) =>
              /\ ~g_running'
              /\ g_interface' = 0
              /\ g_auto_reconnect =>
                    g_after'.do_reconnect = g_after.do_reconnect + 1]_vars

\* a connection loss has just been handled: the service is down and the 2 s
\* timer of _attempt_reconnect is pending
LossDetected == ~g_running /\ g_interface = 0 /\ g_after.do_reconnect > 0

\* C26: with auto_reconnect on, a detected connection loss schedules a connect
\* attempt that starts in a later step, when the settle timer fires, and
\* when the transport becomes openable again and no stop is requested the
\* service is eventually Connected again, whatever Start requests the user
\* issues in the meantime.
C26_LossLeadsToConnected ==
    LossDetected ~> (Connected \/ g_request = "stop" \/ ~g_auto_reconnect)

----------------------------------------------------------------------------
(* Properties of the bot's supervisory loop and of shutdown *)

\* C27: in the bot a transport that is lost while connected is detected by
\* the loop of main, whether messages flow or not: the loop eventually closes
\* the dead interface, drops it and goes on to a new connect cycle.
C27_BotDetectsLoss ==
    b_lost ~> (b_interface = 0 /\ b_pc \in {"delay", "connect"})

----------------------------------------------------------------------------
(* Properties of the GUI's diagnostics *)

\* the error class of a failed request, by the except clause that takes it:
\* requests' ConnectTimeout derives from ConnectionError and is caught first
\* as one
ErrorClass(o) ==
    IF o.kind \in {"ConnectionError", "ConnectTimeout"} THEN "connection"
    ELSE IF o.kind = "ReadTimeout" THEN "timeout"
    ELSE IF o.kind = "HTTPError" THEN "http"
    ELSE "other"

ErrorClasses == {"connection", "timeout", "http", "other"}

\* the diagnostics _query_ollama returns when its last failure is of the class
GuiClassDiagnostics(class) ==
    {IF GuiTerminal(o) THEN StrModelNotFound ELSE GuiDiagnostic(LastError("gui", o)) :
        o \in {f \in FailOutcomes : ErrorClass(f) = class}}

\* every request of the finished GUI query failed
GuiAllFailed ==
    /\ q_variant = "gui"
    /\ q_pc = "done"
    /\ q_hist # <<>>
    /\ \A i \in 1..Len(q_hist) : q_hist[i].kind # "ok"

----------------------------------------------------------------------------
(* Properties of shutdown *)

\* C29: a shutdown request cancels no backend query that is in flight and
\* closes the transport only when every query in flight has ended and its
\* reply has been handed to sendText: stop_service closes no interface a
\* _process_ai_query worker still holds, and the bot's KeyboardInterrupt
\* closes the interface only while on_receive is idle.
C29_ShutdownWaitsForQueries ==
    [][/\ GuiStopService =>
              /\ g_workers \subseteq g_workers'
              /\ \A h \in g_open \ g_open' : \A w \in g_workers : w.interface # h
       /\ (~b_closed /\ b_closed') => b_h.pc = "idle"]_vars

----------------------------------------------------------------------------
(* Properties of a failed open *)

\* C30: a failed transport open is a state transition, never an exception:
\* in the bot connect_interface returns None and main goes on to its retry
\* delay or gives up; in the GUI the callback a failing connect or reconnect
\* thread posts adopts no interface, does not make the service running and
\* ends with _connecting false.
C30_FailedOpenIsTransition ==
    [][/\ BotConnectFails => (b_interface' = 0 /\ b_pc' \in {"delay", "failed"})
       /\ GuiOnConnectFailure =>
              (~g_running' /\ ~g_connecting' /\ g_interface' = g_interface)
       /\ GuiOnReconnectFailure =>
              /\ ~g_connecting'
              /\ g_running' => g_running
              /\ g_interface' = g_interface]_vars

----------------------------------------------------------------------------
(* Properties of connect attempts, Stop and the session's state *)

\* connect attempts under way or scheduled: threads, _do_reconnect timers
ConnectAttempts == Cardinality(g_threads) + g_after.do_reconnect

\* C31: in the GUI a failed connect attempt started by start_service is
\* retried automatically: when Tk runs _on_connect_failure and fewer than
\* max_retries attempts have failed in a row, a further attempt is started or
\* scheduled for later.
C31_ConnectFailureRetried ==
    [][(GuiOnConnectFailure /\ g_failures < max_retries) =>
            ConnectAttempts' > ConnectAttempts]_vars

\* stop_service changes nothing in the state m, whatever close() does
StopChangesNothing(m) ==
    \A close_raises, still_open \in BOOLEAN : StopService(m, close_raises, still_open) = m

\* C32: disconnect is idempotent: stop_service called while the service is
\* stopped (not running, no attempt in progress) changes no session state and
\* closes no transport, and a second stop_service call right after a first
\* changes nothing any more.
C32_StopIdempotent ==
    [][GuiStopService =>
          /\ (~g_running /\ ~g_connecting) => UNCHANGED guiMainVars
          /\ StopChangesNothing(Main')]_vars

----------------------------------------------------------------------------
(* Properties of the query client's use of time *)

\* at most n requests and n-1 sleeps, and no sleep after the n-th request
QueryWithinBudget ==
    q_retries >= 1 =>
        /\ Len(q_hist) <= q_retries
        /\ q_sleeps <= q_retries - 1
        /\ q_sleeps <= Len(q_hist)
        /\ q_pc = "sleep" => Len(q_hist) < q_retries
        /\ QueryEnded => q_sleeps <= Len(q_hist) - 1

\* C33: one call of the query client with retry limit n >= 1 always ends,
\* having issued at most n requests and slept at most n-1 delays, none of
\* them after its final attempt: it lasts at most n * (timeout + delay).
C33_QueryBounded == [](QueryWithinBudget) /\ <>QueryEnded

\* the worst case: three requests failed, two sleeps between them
C33_Witness ==
    /\ QueryEnded
    /\ q_retries = 3
    /\ Len(q_hist) = 3
    /\ NoSuccess(q_hist)
    /\ q_sleeps = 2

----------------------------------------------------------------------------
(* Properties of the interfaces and threads of the GUI service *)

\* interfaces a thread has opened and the main thread has not yet been handed
InFlightHandles ==
    {t.iface : t \in {u \in g_threads : u.pc \in {"created", "posted"}}}
        \cup g_after.connect_ok \cup g_after.reconnect_ok

\* self.interface is given another value while the interface it names is open
OverwritesOpenInterface ==
    /\ g_interface \in g_open
    /\ g_interface' # g_interface
    /\ g_interface \in g_open'

\* every open interface is self.interface or on its way to the main thread
OpenInterfacesHeld == \A h \in g_open : h = g_interface \/ h \in InFlightHandles

\* C34: at most one interface the GUI service opened is open at any time:
\* self.interface is never overwritten while it names an open interface, and
\* every interface the service opened is the current one or has been closed.
C34_OneOpenInterface ==
    [][/\ Cardinality(g_open') <= 1
       /\ ~OverwritesOpenInterface
       /\ OpenInterfacesHeld']_vars

\* connect and reconnect attempts whose success or failure handler has not
\* yet run: threads that have not posted their result, and posted results
OutstandingAttempts ==
    Cardinality({t \in g_threads : t.pc # "posted"})
        + Cardinality(g_after.connect_ok) + g_after.connect_fail
        + Cardinality(g_after.reconnect_ok) + g_after.reconnect_fail

\* C35: at most one connect or reconnect thread is in flight at any time:
\* _connecting stays true from the start of a thread until its success or
\* failure handler has run, so neither start_service nor _do_reconnect starts
\* a second thread while one is outstanding.
C35_OneConnectThread ==
    [][/\ OutstandingAttempts' <= 1
       /\ OutstandingAttempts' > 0 => g_connecting'
       /\ ((GuiStartService \/ GuiDoReconnect) /\ OutstandingAttempts > 0)
             => g_threads' = g_threads]_vars

\* C36: stop_service called while a connection attempt is in progress cancels
\* the attempt: when the connect thread later succeeds, and Stop is still the
\* user's last request, the service does not become running, adopts no
\* interface and starts no timers or health check.
C36_StopCancelsConnect ==
    [][(GuiOnConnectSuccess /\ g_request = "stop") =>
            /\ ~g_running'
            /\ g_interface' = g_interface
            /\ g_timers' = g_timers]_vars

\* not running, and self.interface closed and unset
Disconnected == ~g_running /\ g_interface = 0

\* C37: with auto_reconnect disabled a health-probe failure leaves the GUI
\* service Disconnected, its interface closed and unset, and no reconnect
\* attempt is scheduled while the option is off; switched off during a
\* reconnect cycle, the next failed attempt schedules no further attempt.
C37_NoReconnectWhenDisabled ==
    [][/\ ~g_auto_reconnect => g_after'.do_reconnect <= g_after.do_reconnect
       /\ (GuiHealthTick /\ ~g_auto_reconnect /\ Connected) =>
             \/ Connected' /\ g_interface' = g_interface
             \/ Disconnected' /\ g_interface \notin g_open' /\ g_threads' = g_threads
       /\ (GuiOnReconnectFailure /\ ~g_auto_reconnect) =>
             /\ g_after'.do_reconnect = g_after.do_reconnect
             /\ g_threads' = g_threads]_vars

\* a reconnect cycle has failed at least once, the option is now off, and
\* nothing is scheduled or in flight
C37_Witness ==
    /\ ~g_auto_reconnect
    /\ g_failures >= 1
    /\ Disconnected
    /\ ~g_connecting
    /\ g_threads = {}
    /\ g_after.do_reconnect = 0
    /\ g_after.reconnect_fail = 0
    /\ g_after.reconnect_ok = {}
    /\ g_after.connect_ok = {}

\* C38: at every event boundary of the GUI's main loop running = true implies
\* self.interface is set; after connection-loss handling, and after a stop
\* that succeeded, running is false and self.interface is unset.
C38_RunningHasInterface ==
    [][/\ g_running' => g_interface' # 0
       /\ (GuiHealthTick /\ Connected /\ ~Connected') => Disconnected'
       /\ (GuiStopService /\ g_running /\ ~g_connecting /\ ~g_running') =>
             g_interface' = 0]_vars

\* connection-loss handling has run and scheduled a reconnect
C38_Witness ==
    /\ Disconnected
    /\ g_open = {}
    /\ g_after.do_reconnect > 0
    /\ g_after.reconnect_fail = 0
    /\ g_threads = {}
    /\ ~g_connecting

----------------------------------------------------------------------------
(* The answer of a successful request *)

\* the backend answered and its response field is missing, empty or blank
BlankAnswer(o) == o.kind = "ok" /\ Strip(o.body) = <<>>

\* C39: when the backend answers successfully but its response field is
\* missing, empty or only whitespace, the query client returns the text
\* 'No response.' without another request or sleep, and the answer a
\* finished call hands to the reply encoder is never empty.
C39_BlankAnswerIsNoResponse ==
    /\ \A i \in 1..Len(q_hist) :
          BlankAnswer(q_hist[i]) =>
              /\ i = Len(q_hist)
              /\ q_pc = "done"
              /\ q_result = StrNoResponse
    /\ q_pc = "done" => (q_result # NoText /\ Len(q_result) > 0)

\* a blank answer to the second request, after one failure and one sleep
C39_Witness ==
    /\ q_pc = "done"
    /\ Len(q_hist) = 2
    /\ q_sleeps = 1
    /\ q_hist[2] = Outcome("ok", 200, BodyBlank)
    /\ q_result = StrNoResponse

=============================================================================
